---- MODULE Spec2Model ----
(***************************************************************************)
(* whalECS: the entity / component / system runtime.                       *)
(*                                                                         *)
(* The model follows the latest variant of each class found in the         *)
(* sources: EntityManager (src/src/EntityManager.cpp 146-256),             *)
(* ComponentArray / ComponentManager / ISystem / World (the header in      *)
(* src/unnamed/part_002 828-1898), SystemManager (src/src/SystemManager    *)
(* .cpp), Entity (src/src/Entity.cpp 185-450) and World                    *)
(* (src/unnamed/part_010).                                                 *)
(*                                                                         *)
(* Every C++ function is a pure operator from a world record to a world    *)
(* record, so that the order of the calls inside a handler is kept; the    *)
(* actions apply one public operation each.                                *)
(***************************************************************************)
EXTENDS Integers, Sequences, FiniteSets, TLC

\* ------------------------------------------------------------------ bounds

\* MAX_ENTITIES is set by the build (#ifndef MAX_ENTITIES, 5000 by default); ids are
\* 0 .. MAX_ENTITIES - 1. Two builds are checked: a small one under every operation
\* and a larger one under the operations on the hierarchy.
FlatEntities == 3
TreeEntities == 4
\* component values are 1 .. MaxVal
MaxVal == 2
\* autoUpdate() is called while mFrame is below MaxFrame
MaxFrame == 6
\* the largest DynamicBitset has MaxBits bits: one full block and a part of a second
MaxBits == 66
\* the threads that call createEntity are 1 .. NumThreads
NumThreads == 2

\* ------------------------------------------------------------ universes

\* Entity{0}: the dummy id, also World::mRootEntity
RootEntity == 0
AllIds == 0 .. (TreeEntities - 1)
Ids == 1 .. (TreeEntities - 1)
\* data-bearing component types (ComponentManager::getComponentID): Position, Velocity
Position == 0
Velocity == 1
CompIds == {Position, Velocity}
\* a data type that is attached to the descriptor entities of other components and
\* tags (world.component<C>().add<Named>()), never to an entity of the host
Named == 2
TraitIds == {Named}
\* tag types (ComponentManager::getTagID)
Frozen == 0
TagIds == {Frozen}
Values == 1 .. MaxVal
\* T() of a trivially copyable type, the value Entity::add<T>() stores
DefaultValue == 1
\* a slot of mComponentTable at or beyond mSize: never read by the code
Unused == 0
\* childToParent has no entry for this key
NoEntry == -1
\* Position stands for a trivially copyable type, Velocity for a type with a
\* member that owns memory (a std::string, a std::vector). Empty is the value of
\* such a type that owns nothing: T(), and what a move leaves in its source
Empty == 0
OwningTypes == {Velocity}
\* T() of the type c
DefaultOf(c) == IF c \in OwningTypes THEN Empty ELSE DefaultValue

VARIABLES
    maxEntities,        \* MAX_ENTITIES of this build
    mAvailableIDs,      \* EntityManager: std::queue<EntityID>
    mEntityCount,       \* EntityManager: u32
    mActiveEntities,    \* EntityManager: DynamicBitset, as the set of set bits
    mPatterns,          \* EntityManager: std::array<Pattern, MAX_ENTITIES>
    mTagPatterns,       \* EntityManager: std::array<Pattern, MAX_ENTITIES>
    childToParent,      \* EntityManager: unordered_map<Entity, Entity>
    parentToChildren,   \* EntityManager: unordered_map<Entity, unordered_set<Entity>>
    mComponentArrays,   \* ComponentManager: one ComponentArray per registered type
    mEntities,          \* ISystem<...>::mEntities of every registered system
    mDescPatterns,      \* per component or tag: the traits its descriptor entity holds
    mTraitUsers,        \* per trait: the TraitUsers its descriptor entity holds, if any
    mAttributes,        \* SystemManager: the attributes of every registered system
    mFrame,             \* SystemManager: int
    mIsWorldPaused,     \* SystemManager
    updateCalls,        \* the autoUpdate() calls made since the start or the last clear
    mToKill,            \* World
    mKilledThisFrame,   \* World
    tmpToKill,          \* World::killEntities: the local tmpToKill
    toVisit,            \* World::killEntities: what the for loop has not visited yet
    pc,                 \* "idle", or "drain" inside World::killEntities
    cbBalance,          \* per monitor system and entity: onAdd calls minus onRemove calls
    mCreatorMutex,      \* EntityManager: std::mutex, as the thread that holds it
    creators,           \* per thread: where it is in createEntity, and its locals
    operands            \* two DynamicBitsets of one size and what contains returned

vars == <<maxEntities, mAvailableIDs, mEntityCount, mActiveEntities, mPatterns, mTagPatterns,
          childToParent, parentToChildren, mComponentArrays, mEntities, mDescPatterns,
          mTraitUsers, mAttributes, mFrame, mIsWorldPaused, updateCalls, mToKill,
          mKilledThisFrame, tmpToKill, toVisit, pc, cbBalance, mCreatorMutex, creators,
          operands>>

\* what the single-threaded operations on the world leave alone
aside == <<mCreatorMutex, creators, operands>>

\* the world as one record, the argument and result of every modelled function;
\* cbLog lists the monitor callbacks the running operation has made so far
Cur ==
    [mAvailableIDs |-> mAvailableIDs, mEntityCount |-> mEntityCount,
     mActiveEntities |-> mActiveEntities, mPatterns |-> mPatterns,
     mTagPatterns |-> mTagPatterns, childToParent |-> childToParent,
     parentToChildren |-> parentToChildren, mComponentArrays |-> mComponentArrays,
     mEntities |-> mEntities, mDescPatterns |-> mDescPatterns,
     mTraitUsers |-> mTraitUsers, mAttributes |-> mAttributes, mFrame |-> mFrame,
     mIsWorldPaused |-> mIsWorldPaused, updateCalls |-> updateCalls, updLog |-> <<>>,
     mToKill |-> mToKill,
     mKilledThisFrame |-> mKilledThisFrame, tmpToKill |-> tmpToKill,
     toVisit |-> toVisit, pc |-> pc, cbLog |-> <<>>, cbBalance |-> cbBalance]

\* the code leaves the old value in a slot at or beyond mSize; nothing reads such a
\* slot before addData writes it again, and the state of the world leaves it out
Compact(a) ==
    [a EXCEPT !.mComponentTable = [i \in AllIds |-> IF i < a.mSize THEN @[i] ELSE Unused]]

\* the operation returns and leaves the world st
Continues(st) ==
    /\ UNCHANGED maxEntities
    /\ mAvailableIDs' = st.mAvailableIDs
    /\ mEntityCount' = st.mEntityCount
    /\ mActiveEntities' = st.mActiveEntities
    /\ mPatterns' = st.mPatterns
    /\ mTagPatterns' = st.mTagPatterns
    /\ childToParent' = st.childToParent
    /\ parentToChildren' = st.parentToChildren
    /\ mComponentArrays' = [c \in CompIds |-> Compact(st.mComponentArrays[c])]
    /\ mEntities' = st.mEntities
    /\ mDescPatterns' = st.mDescPatterns
    /\ mTraitUsers' = st.mTraitUsers
    /\ mAttributes' = st.mAttributes
    /\ mFrame' = st.mFrame
    /\ mIsWorldPaused' = st.mIsWorldPaused
    /\ updateCalls' = st.updateCalls
    /\ mToKill' = st.mToKill
    /\ mKilledThisFrame' = st.mKilledThisFrame
    /\ tmpToKill' = st.tmpToKill
    /\ toVisit' = st.toVisit
    /\ pc' = st.pc
    /\ cbBalance' = st.cbBalance

\* a failed assert() terminates the process (the build keeps the assertions):
\* nothing runs any more, and the state is left as it was before the operation
Aborts ==
    /\ pc' = "aborted"
    /\ UNCHANGED <<maxEntities, mAvailableIDs, mEntityCount, mActiveEntities, mPatterns,
                   mTagPatterns, childToParent, parentToChildren, mComponentArrays,
                   mEntities, mDescPatterns, mTraitUsers, mAttributes, mFrame,
                   mIsWorldPaused, updateCalls, mToKill, mKilledThisFrame, tmpToKill,
                   toVisit, cbBalance>>

Becomes(st) ==
    /\ IF st.pc = "aborted" THEN Aborts ELSE Continues(st)
    /\ UNCHANGED aside

\* the smallest element of a non-empty set of numbers
MinOf(S) == CHOOSE x \in S : \A y \in S : x <= y

\* --------------------------------------------------------- DynamicBitset

\* DynamicBitset::contains(other): (this & other) == this, block by block
Contains(this, other) == (this \cap other) = this

\* DynamicBitset::containsNone(other): (this & other) == 0, block by block
ContainsNone(this, other) == (this \cap other) = {}

\* the bitset as stored: mNumBits and mBlocks, a block being the set of the bit
\* indices 0 .. BITS_PER_BLOCK - 1 that are 1 in it
BITS_PER_BLOCK == 64

\* DynamicBitset(size_t size): size / BITS_PER_BLOCK blocks, one more for a rest
DynamicBitset_new(size) ==
    [mNumBits |-> size,
     mBlocks |-> [i \in 1 .. ((size \div BITS_PER_BLOCK)
                               + (IF size % BITS_PER_BLOCK # 0 THEN 1 ELSE 0)) |-> {}]]

block_index(pos) == pos \div BITS_PER_BLOCK
bit_index(pos) == pos % BITS_PER_BLOCK

\* set(pos, value); mBlocks is indexed from 0 in the code and from 1 here
DynamicBitset_set(b, pos, value) ==
    [b EXCEPT !.mBlocks[block_index(pos) + 1] =
                  IF value THEN @ \cup {bit_index(pos)} ELSE @ \ {bit_index(pos)}]

\* contains(other) on a bitset with at least one block: the full blocks first, then
\* the last block under the mask of its used bits
DynamicBitset_contains(this, other) ==
    IF this.mNumBits < other.mNumBits THEN FALSE
    ELSE LET full_blocks == Len(this.mBlocks) - 1
             used_bits_in_last_block == this.mNumBits % BITS_PER_BLOCK
             mask == 0 .. (used_bits_in_last_block - 1)
             thisMasked == this.mBlocks[full_blocks + 1] \cap mask
         IN  IF \E i \in 1 .. full_blocks :
                    (this.mBlocks[i] \cap other.mBlocks[i]) # this.mBlocks[i]
             THEN FALSE
             ELSE IF used_bits_in_last_block = 0
                  THEN (this.mBlocks[full_blocks + 1] \cap other.mBlocks[full_blocks + 1])
                           = this.mBlocks[full_blocks + 1]
                  ELSE ((other.mBlocks[full_blocks + 1] \cap mask) \cap thisMasked)
                           = thisMasked

\* -------------------------------------------------------- ComponentArray

ComponentArray_new ==
    [mComponentTable |-> [i \in AllIds |-> Unused],
     mEntityToIndex |-> [e \in AllIds |-> -1],
     mIndexToEntity |-> [i \in AllIds |-> 0],
     mSize |-> 0]

hasData(a, e) == a.mEntityToIndex[e] # -1

\* addData that registers the entity again instead of overwriting its value
addData_append(a, e, v) ==
    [a EXCEPT !.mSize = a.mSize + 1,
              !.mEntityToIndex[e] = a.mSize,
              !.mIndexToEntity[a.mSize] = e,
              !.mComponentTable[a.mSize] = v]

addData(a, e, v) ==
    IF hasData(a, e)
    THEN [a EXCEPT !.mComponentTable[a.mEntityToIndex[e]] = v]
    ELSE [a EXCEPT !.mSize = a.mSize + 1,
                   !.mEntityToIndex[e] = a.mSize,
                   !.mIndexToEntity[a.mSize] = e,
                   !.mComponentTable[a.mSize] = v]

\* removeData that moves the last value but leaves the moved entity's index stale
removeData_staleIndex(a, e) ==
    IF ~hasData(a, e) THEN a
    ELSE LET removeIx == a.mEntityToIndex[e]
             lastIx == a.mSize - 1
             moved ==
                 IF removeIx # lastIx
                 THEN [a EXCEPT !.mComponentTable[removeIx] = a.mComponentTable[lastIx],
                                !.mIndexToEntity[removeIx] = a.mIndexToEntity[lastIx]]
                 ELSE a
         IN  [moved EXCEPT !.mSize = lastIx,
                           !.mEntityToIndex[e] = -1,
                           !.mIndexToEntity[lastIx] = 0]

\* removeData that updates both maps but does not move the last value
removeData_noMove(a, e) ==
    IF ~hasData(a, e) THEN a
    ELSE LET removeIx == a.mEntityToIndex[e]
             lastIx == a.mSize - 1
             lastEntity == a.mIndexToEntity[lastIx]
             moved ==
                 IF removeIx # lastIx
                 THEN [a EXCEPT !.mEntityToIndex[lastEntity] = removeIx,
                                !.mIndexToEntity[removeIx] = lastEntity]
                 ELSE a
         IN  [moved EXCEPT !.mSize = lastIx,
                           !.mEntityToIndex[e] = -1,
                           !.mIndexToEntity[lastIx] = 0]

removeData(a, e) ==
    IF ~hasData(a, e) THEN a
    ELSE LET removeIx == a.mEntityToIndex[e]
             lastIx == a.mSize - 1
             lastEntity == a.mIndexToEntity[lastIx]
             moved ==
                 IF removeIx # lastIx
                 THEN [a EXCEPT !.mComponentTable[removeIx] = a.mComponentTable[lastIx],
                                !.mEntityToIndex[lastEntity] = removeIx,
                                !.mIndexToEntity[removeIx] = lastEntity]
                 ELSE a
         IN  [moved EXCEPT !.mSize = lastIx,
                           !.mEntityToIndex[e] = -1,
                           !.mIndexToEntity[lastIx] = 0]

\* setData that writes the first slot of the table
setData_first(a, e, v) == [a EXCEPT !.mComponentTable[0] = v]

setData(a, e, v) == [a EXCEPT !.mComponentTable[a.mEntityToIndex[e]] = v]

getData(a, e) == a.mComponentTable[a.mEntityToIndex[e]]

entityDestroyed(a, e) == IF ~hasData(a, e) THEN a ELSE removeData(a, e)

\* what std::move(*cmpOpt) leaves in the slot it moved the value v of type c from
MovedOut(c, v) == IF c \in OwningTypes THEN Empty ELSE v

\* copyComponent of the array of type c: addData(dest, std::move(*cmpOpt))
copyComponent(a, c, prefab, dest) ==
    IF hasData(a, prefab)
    THEN LET v == getData(a, prefab)
             added == addData(a, dest, v)
         IN  [added EXCEPT !.mComponentTable[a.mEntityToIndex[prefab]] = MovedOut(c, v)]
    ELSE a

\* ---------------------------------------------------------------- systems

\* a declared type of ISystem<T...>: a component or tag, plain or wrapped in Exclude<>
Comp(c) == [isTag |-> FALSE, id |-> c, exclude |-> FALSE, trait |-> FALSE]
Tag(t) == [isTag |-> TRUE, id |-> t, exclude |-> FALSE, trait |-> FALSE]
Exclude(d) == [d EXCEPT !.exclude = TRUE]
MatchTrait(d) == [d EXCEPT !.trait = TRUE]

\* the components and tags of the host, as the descriptor entities that stand for them
Descriptors == {Comp(c) : c \in CompIds} \cup {Tag(t) : t \in TagIds}

\* the registered systems, in registration order (mSystems), with what
\* registerSystem derives from the type: the monitor interface and the attributes
SysIds == {1, 2, 3, 4, 5, 6}
SystemDecl(s) ==
    CASE s = 1 -> [types |-> {Comp(Position), Comp(Velocity)},
                   monitor |-> TRUE, excludeChildren |-> FALSE]
      [] s = 2 -> [types |-> {Comp(Position), Exclude(Comp(Velocity))},
                   monitor |-> FALSE, excludeChildren |-> FALSE]
      [] s = 3 -> [types |-> {Tag(Frozen)},
                   monitor |-> TRUE, excludeChildren |-> FALSE]
      [] s = 4 -> [types |-> {Exclude(Tag(Frozen))},
                   monitor |-> TRUE, excludeChildren |-> FALSE]
      [] s = 5 -> [types |-> {Comp(Position)},
                   monitor |-> TRUE, excludeChildren |-> TRUE]
      [] s = 6 -> [types |-> {MatchTrait(Comp(Named))},
                   monitor |-> FALSE, excludeChildren |-> FALSE]

\* ComponentManager::getTagID<T>: a tag's id; a data type asked for a tag id draws a
\* fresh one from the same counter, past the ids of the tags
getTagID(d) == IF d.isTag THEN d.id ELSE Cardinality(TagIds) + d.id

\* ISystem::ISystem with InitializeIDs over the declared types. Exclude<T> is an
\* empty class, so is_empty_v<Component> holds for every excluded type and the bit
\* goes to mTagAntiPattern under T's tag id; mAntiPattern is never set.
InitializeIDs(types) ==
    [mPattern |-> {d.id : d \in {x \in types : ~x.exclude /\ ~x.trait /\ ~x.isTag}},
     mTagPattern |-> {d.id : d \in {x \in types : ~x.exclude /\ ~x.trait /\ x.isTag}},
     mAntiPattern |-> {},
     mTagAntiPattern |-> {getTagID(d) : d \in {x \in types : x.exclude}},
     mTraits |-> {d.id : d \in {x \in types : ~x.exclude /\ x.trait}}]

System(s) == InitializeIDs(SystemDecl(s).types)

\* mMonitorSystems[i] != nullptr
IsMonitor(s) == SystemDecl(s).monitor

\* (mAttributes[i] & ExcludeChildren) > 0
IsExcludeChildren(s) == SystemDecl(s).excludeChildren

\* the systems that derive from IUpdate (mUpdateSystems[i] != nullptr) and those
\* that derive from AttrUpdateDuringPause
UpdateSystems == {1, 2, 3, 5, 6}
PauseSystems == {2, 5}

\* the attributes registerSystem derives from the base classes of the type
DerivedAttributes(s) ==
    (IF s \in PauseSystems THEN {"UpdateDuringPause"} ELSE {})
        \cup (IF IsExcludeChildren(s) THEN {"ExcludeChildren"} ELSE {})

\* the registration the host performs at start: the calls in order, each with the
\* systems it registers in order; the systems are numbered in this order
Registration ==
    << [call |-> "sequential", interval |-> 1, systems |-> <<1, 2>>],
       [call |-> "parallel", interval |-> 2, systems |-> <<3, 4, 5>>],
       [call |-> "registerSystems", interval |-> 0, systems |-> <<6>>] >>

\* groupIndices of sequential / parallel: the registered systems with an IUpdate
GroupIndices(systems) == SelectSeq(systems, LAMBDA ix : ix \in UpdateSystems)

\* SystemManager::sequential(interval) and SystemManager::parallel(interval)
sequential(systems, interval) ==
    [intervalFrame |-> interval, isParallel |-> FALSE, group |-> GroupIndices(systems)]
parallel(systems, interval) ==
    [intervalFrame |-> interval, isParallel |-> Len(GroupIndices(systems)) > 1,
     group |-> GroupIndices(systems)]

\* mUpdateGroups after the registration
mUpdateGroups ==
    LET calls == SelectSeq(Registration, LAMBDA r : r.call # "registerSystems")
    IN  [i \in DOMAIN calls |->
            IF calls[i].call = "sequential"
            THEN sequential(calls[i].systems, calls[i].interval)
            ELSE parallel(calls[i].systems, calls[i].interval)]

\* the loop over mTraits: trait.tryGet<TraitUsers>() of every trait is there and
\* one of its patterns shares a bit with the entity's
isTraitsSatisfied(st, s, pattern, tagPattern) ==
    \A trait \in System(s).mTraits :
        LET traitUsers == st.mTraitUsers[trait]
        IN  /\ traitUsers.present
            /\ ~(/\ ContainsNone(traitUsers.componentPattern, pattern)
                 /\ ContainsNone(traitUsers.tagPattern, tagPattern))

isPatternInSystem(st, s, pattern, tagPattern) ==
    /\ isTraitsSatisfied(st, s, pattern, tagPattern)
    /\ Contains(System(s).mPattern, pattern)
    /\ Contains(System(s).mTagPattern, tagPattern)
    /\ ContainsNone(System(s).mAntiPattern, pattern)
    /\ ContainsNone(System(s).mTagAntiPattern, tagPattern)

\* ------------------------------------------------------ monitor callbacks

\* the component types that hold a value for e
Stored(st, e) == {c \in CompIds : hasData(st.mComponentArrays[c], e)}

\* IMonitorSystem::onAdd(e) / onRemove(e) of system s: what the callback can see
Callback(st, kind, s, e) ==
    LET b == st.cbBalance[s][e]
        \* "bad": two onAdd or two onRemove in a row, or onRemove first
        nb == CASE b = "out" /\ kind = "onAdd" -> "in"
                [] b = "in" /\ kind = "onRemove" -> "out"
                [] OTHER -> "bad"
    IN  [st EXCEPT !.cbLog = Append(st.cbLog,
                                    [kind |-> kind, s |-> s, e |-> e,
                                     member |-> e \in st.mEntities[s],
                                     stored |-> Stored(st, e),
                                     toKill |-> st.mToKill]),
                   !.cbBalance[s][e] = nb]

onAdd(st, s, e) == IF IsMonitor(s) THEN Callback(st, "onAdd", s, e) ELSE st
onRemove(st, s, e) == IF IsMonitor(s) THEN Callback(st, "onRemove", s, e) ELSE st

\* ---------------------------------------------------------- SystemManager

\* childToParent[e] of the unordered_map: a missing key is inserted with Entity{0}
ParentOf(st, e) == IF st.childToParent[e] = NoEntry THEN RootEntity ELSE st.childToParent[e]

isMatch(st, s, e) == isPatternInSystem(st, s, st.mPatterns[e], st.mTagPatterns[e])

\* no entity carries OverrideAttributeIgnoreChildren; forChild visits the children
\* in the set's iteration order, and the visits touch disjoint entities
\* tryRemoveChild that leaves the child in the system
tryRemoveChild_keep(st, e, s) == st

RECURSIVE tryRemoveChild(_, _, _)
RECURSIVE TryRemoveEach(_, _, _)
tryRemoveChild(st, e, s) ==
    IF e \in st.mEntities[s]
    THEN LET told == onRemove(st, s, e)
             erased == [told EXCEPT !.mEntities[s] = @ \ {e}]
         IN  TryRemoveEach(erased, st.parentToChildren[e], s)
    ELSE st
TryRemoveEach(st, children, s) ==
    IF children = {} THEN st
    ELSE LET c == MinOf(children)
         IN  TryRemoveEach(tryRemoveChild(st, c, s), children \ {c}, s)

\* assert that lets any number of entities into a UniqueEntity system
assertUniqueEntity_off(st, s) == st

\* assert(!((mAttributes[i] & UniqueEntity) > 0) || size() < 1)
assertUniqueEntity(st, s) ==
    IF "UniqueEntity" \in st.mAttributes[s] /\ st.mEntities[s] # {}
    THEN [st EXCEPT !.pc = "aborted"]
    ELSE st

checkIfInSystem(st, e, s, newEntityPattern, newTagPattern, isEntityInSystem) ==
    LET \* entity.parent() reads childToParent[e], which inserts a missing key
        looked == IF IsExcludeChildren(s)
                  THEN [st EXCEPT !.childToParent[e] = ParentOf(st, e)]
                  ELSE st
        isExcluded == IsExcludeChildren(s) /\ isMatch(looked, s, ParentOf(st, e))
        isPatternMatch == isPatternInSystem(looked, s, newEntityPattern, newTagPattern)
    IN  IF isPatternMatch /\ ~isExcluded
        THEN IF isEntityInSystem THEN looked
             ELSE LET checked == assertUniqueEntity(looked, s)
                      added == onAdd([checked EXCEPT !.mEntities[s] = @ \cup {e}], s, e)
                  IN  IF checked.pc = "aborted" THEN checked
                      ELSE IF IsExcludeChildren(s)
                           THEN TryRemoveEach(added, added.parentToChildren[e], s)
                           ELSE added
        ELSE IF isEntityInSystem
             THEN LET told == onRemove(looked, s, e)
                  IN  [told EXCEPT !.mEntities[s] = @ \ {e}]
             ELSE looked

RECURSIVE PatternChangedFrom(_, _, _, _, _)
PatternChangedFrom(st, e, pattern, tagPattern, todo) ==
    IF todo = {} THEN st
    ELSE LET s == MinOf(todo)
         IN  PatternChangedFrom(
                 checkIfInSystem(st, e, s, pattern, tagPattern, e \in st.mEntities[s]),
                 e, pattern, tagPattern, todo \ {s})

onEntityPatternChanged(st, e, pattern, tagPattern) ==
    PatternChangedFrom(st, e, pattern, tagPattern, SysIds)

RECURSIVE DestroyedFrom(_, _, _)
DestroyedFrom(st, e, todo) ==
    IF todo = {} THEN st
    ELSE LET s == MinOf(todo)
             next == IF e \in st.mEntities[s]
                     THEN onRemove([st EXCEPT !.mEntities[s] = @ \ {e}], s, e)
                     ELSE st
         IN  DestroyedFrom(next, e, todo \ {s})

\* onEntityDestroyed that erases the entity without telling the monitors
onEntityDestroyed_silent(st, e) ==
    [st EXCEPT !.mEntities = [s \in SysIds |-> @[s] \ {e}]]

onEntityDestroyed(st, e) == DestroyedFrom(st, e, SysIds)

\* ---------------------------------------------------------- EntityManager

isActive(st, e) == e \in st.mActiveEntities

\* the capacity check of createEntity. mEntityCount is a u32: a count below zero
\* stands for that count plus 2^32, so -1 + 1 is 0 and any other such sum is huge
IsFull(st) ==
    IF st.mEntityCount + 1 < 0 THEN TRUE ELSE st.mEntityCount + 1 >= maxEntities

\* the id createEntity hands out when it succeeds
FrontID(st) == Head(st.mAvailableIDs)

\* the Entity createEntity returns: Entity{0} when it fails
Created(st) == IF IsFull(st) THEN 0 ELSE FrontID(st)

\* createEntity that reads the front of the queue and does not pop it
createEntity_noPop(st, isAlive, parent) ==
    IF IsFull(st) THEN st
    ELSE LET id == FrontID(st)
             cleared == [st.parentToChildren EXCEPT ![id] = {}]
         IN  [st EXCEPT !.mEntityCount = @ + 1,
                        !.mActiveEntities =
                            IF (parent = 0 \/ isActive(st, parent)) /\ isAlive
                            THEN @ \cup {id} ELSE @,
                        !.parentToChildren = [cleared EXCEPT ![parent] = @ \cup {id}],
                        !.childToParent[id] = parent]

\* createEntity that counts the entity before it tests the capacity
createEntity_countFirst(st, isAlive, parent) ==
    IF IsFull(st) THEN [st EXCEPT !.mEntityCount = @ + 1]
    ELSE LET id == FrontID(st)
             cleared == [st.parentToChildren EXCEPT ![id] = {}]
         IN  [st EXCEPT !.mAvailableIDs = Tail(@),
                        !.mEntityCount = @ + 1,
                        !.mActiveEntities =
                            IF (parent = 0 \/ isActive(st, parent)) /\ isAlive
                            THEN @ \cup {id} ELSE @,
                        !.parentToChildren = [cleared EXCEPT ![parent] = @ \cup {id}],
                        !.childToParent[id] = parent]

\* createEntity that sets the active bit whenever isAlive is asked for
createEntity_parentBlind(st, isAlive, parent) ==
    IF IsFull(st) THEN st
    ELSE LET id == FrontID(st)
             cleared == [st.parentToChildren EXCEPT ![id] = {}]
         IN  [st EXCEPT !.mAvailableIDs = Tail(@),
                        !.mEntityCount = @ + 1,
                        !.mActiveEntities = IF isAlive THEN @ \cup {id} ELSE @,
                        !.parentToChildren = [cleared EXCEPT ![parent] = @ \cup {id}],
                        !.childToParent[id] = parent]

createEntity(st, isAlive, parent) ==
    IF IsFull(st) THEN st
    ELSE LET id == FrontID(st)
             cleared == [st.parentToChildren EXCEPT ![id] = {}]
         IN  [st EXCEPT !.mAvailableIDs = Tail(@),
                        !.mEntityCount = @ + 1,
                        !.mActiveEntities =
                            IF (parent = 0 \/ isActive(st, parent)) /\ isAlive
                            THEN @ \cup {id} ELSE @,
                        !.parentToChildren = [cleared EXCEPT ![parent] = @ \cup {id}],
                        !.childToParent[id] = parent]

\* destroyEntity that leaves the patterns of the entity as they are
destroyEntity_keepPatterns(st, e) ==
    [st EXCEPT !.mActiveEntities = @ \ {e},
               !.mAvailableIDs = Append(@, e),
               !.mEntityCount = @ - 1]

destroyEntity(st, e) ==
    [st EXCEPT !.mActiveEntities = @ \ {e},
               !.mPatterns[e] = {},
               !.mTagPatterns[e] = {},
               !.mAvailableIDs = Append(@, e),
               !.mEntityCount = @ - 1]

\* --------------------------------------------------------------- Entity

addToMgr(st, e, t) ==
    IF t \in st.mPatterns[e] THEN st
    ELSE LET set == [st EXCEPT !.mPatterns[e] = @ \cup {t}]
         IN  IF isActive(set, e)
             THEN onEntityPatternChanged(set, e, set.mPatterns[e], set.mTagPatterns[e])
             ELSE set

addTagToMgr(st, e, t) ==
    IF t \in st.mTagPatterns[e] THEN st
    ELSE LET set == [st EXCEPT !.mTagPatterns[e] = @ \cup {t}]
         IN  IF isActive(set, e)
             THEN onEntityPatternChanged(set, e, set.mPatterns[e], set.mTagPatterns[e])
             ELSE set

removeFromMgr(st, e, t) ==
    LET set == [st EXCEPT !.mPatterns[e] = @ \ {t}]
    IN  IF isActive(set, e)
        THEN onEntityPatternChanged(set, e, set.mPatterns[e], set.mTagPatterns[e])
        ELSE set

removeTagFromMgr(st, e, t) ==
    LET set == [st EXCEPT !.mTagPatterns[e] = @ \ {t}]
    IN  IF isActive(set, e)
        THEN onEntityPatternChanged(set, e, set.mPatterns[e], set.mTagPatterns[e])
        ELSE set

\* ComponentManager::addComponent / removeComponent on an already registered type
addComponent(st, e, c, v) ==
    [st EXCEPT !.mComponentArrays[c] = addData(@, e, v)]

removeComponent(st, e, c) ==
    [st EXCEPT !.mComponentArrays[c] = removeData(@, e)]

\* setComponent that writes without the assert of setData
setComponent_unchecked(st, e, c, v) ==
    [st EXCEPT !.mComponentArrays[c] = setData(@, e, v)]

\* ComponentManager::setComponent: setData asserts mEntityToIndex[entity.id()] != -1
setComponent(st, e, c, v) ==
    IF ~hasData(st.mComponentArrays[c], e)
    THEN [st EXCEPT !.pc = "aborted"]
    ELSE [st EXCEPT !.mComponentArrays[c] = setData(@, e, v)]

\* Entity::set<T>(T component)
Entity_set(st, e, c, v) == setComponent(st, e, c, v)

\* Entity::add that notifies the systems before the value is stored
Entity_add_notifyFirst(st, e, c, v) == addComponent(addToMgr(st, e, c), e, c, v)

\* Entity::add<T>(T component), T a data type
Entity_add(st, e, c, v) == addToMgr(addComponent(st, e, c, v), e, c)

\* Entity::remove that clears the pattern bit and leaves the value in the array
Entity_remove_keepValue(st, e, c) == removeFromMgr(st, e, c)

\* Entity::remove that erases the value before it notifies the systems
Entity_remove_eraseFirst(st, e, c) == removeFromMgr(removeComponent(st, e, c), e, c)

\* Entity::remove<T>(), T a data type
Entity_remove(st, e, c) == removeComponent(removeFromMgr(st, e, c), e, c)

\* Entity::add<T>() / Entity::remove<T>(), T a tag
Entity_addTag(st, e, t) == addTagToMgr(st, e, t)
Entity_removeTag(st, e, t) == removeTagFromMgr(st, e, t)

\* a trait entity without TraitUsers: tryGet<internal::TraitUsers>() is null
NoTraitUsers == [present |-> FALSE, componentPattern |-> {}, tagPattern |-> {}]

addTraitImplementer(st, trait, implementer, isImplementerTag) ==
    LET users == st.mTraitUsers[trait]
    IN  IF users.present
        THEN IF isImplementerTag
             THEN [st EXCEPT !.mTraitUsers[trait].tagPattern = @ \cup {implementer}]
             ELSE [st EXCEPT !.mTraitUsers[trait].componentPattern = @ \cup {implementer}]
        ELSE IF isImplementerTag
             THEN [st EXCEPT !.mTraitUsers[trait] =
                      [present |-> TRUE, componentPattern |-> {}, tagPattern |-> {implementer}]]
             ELSE [st EXCEPT !.mTraitUsers[trait] =
                      [present |-> TRUE, componentPattern |-> {implementer}, tagPattern |-> {}]]

\* internal::TraitUsers users = get<internal::TraitUsers>() is a copy: the bit is
\* cleared in the local users, which is dropped at the return
removeTraitImplementer(st, trait, implementer, isImplementerTag) ==
    LET users == st.mTraitUsers[trait]
        cleared == IF isImplementerTag
                   THEN [users EXCEPT !.tagPattern = @ \ {implementer}]
                   ELSE [users EXCEPT !.componentPattern = @ \ {implementer}]
    IN  st

\* Entity::addToMgr / removeFromMgr on the descriptor entity d of a component or
\* tag (has<internal::Tag>() or has<internal::Component>()), with the data type
\* trait; a descriptor entity is inactive, so no system is told
addToMgr_descriptor(st, d, trait) ==
    IF trait \in st.mDescPatterns[d] THEN st
    ELSE addTraitImplementer([st EXCEPT !.mDescPatterns[d] = @ \cup {trait}],
                             trait, d.id, d.isTag)

removeFromMgr_descriptor(st, d, trait) ==
    removeTraitImplementer([st EXCEPT !.mDescPatterns[d] = @ \ {trait}],
                           trait, d.id, d.isTag)

Entity_addChild(st, parent, child) ==
    LET oldParent == ParentOf(st, child)
        erased == [st.parentToChildren EXCEPT ![oldParent] = @ \ {child}]
    IN  [st EXCEPT !.childToParent[child] = parent,
                   !.parentToChildren = [erased EXCEPT ![parent] = @ \cup {child}]]

Entity_createChild(st, parent, isAlive) == createEntity(st, isAlive, parent)

Entity_orphan(st, e) ==
    LET oldParent == ParentOf(st, e)
        erased == [st.parentToChildren EXCEPT ![oldParent] = @ \ {e}]
    IN  IF oldParent = RootEntity
        THEN [st EXCEPT !.childToParent[e] = RootEntity]
        ELSE [st EXCEPT !.childToParent[e] = RootEntity,
                        !.parentToChildren = [erased EXCEPT ![RootEntity] = @ \cup {e}]]

\* ---------------------------------------------------------------- World

\* everything reachable from the entities of frontier through parentToChildren
RECURSIVE Closure(_, _, _)
Closure(st, frontier, seen) ==
    LET more == UNION {st.parentToChildren[x] : x \in frontier} \ seen
    IN  IF more = {} THEN seen ELSE Closure(st, more, seen \cup more)

\* the entities below e in parentToChildren
Below(st, e) == Closure(st, {e}, {})

\* kill, activate and deactivate recurse over the children: on a cycle of
\* parentToChildren below e the recursion never returns and the process dies
Loops(st, e) == \E x \in {e} \cup Below(st, e) : x \in Below(st, x)

\* mToKill.insert(entity), then the same for every child, recursively
RECURSIVE KillSet(_, _)
KillSet(st, e) == {e} \cup UNION {KillSet(st, c) : c \in st.parentToChildren[e]}

\* kill that also clears the active flag of what it queues
World_kill_inactive(st, e) ==
    [st EXCEPT !.mToKill = @ \cup KillSet(st, e),
               !.mActiveEntities = @ \ KillSet(st, e)]

World_kill(st, e) == [st EXCEPT !.mToKill = @ \cup KillSet(st, e)]

\* the children are visited in the set's iteration order; the visits touch disjoint
\* entities, so one order stands for all
RECURSIVE World_activate(_, _)
RECURSIVE ActivateEach(_, _)
World_activate(st, e) ==
    LET done == IF isActive(st, e) THEN st
                ELSE LET set == [st EXCEPT !.mActiveEntities = @ \cup {e}]
                     IN  onEntityPatternChanged(set, e, set.mPatterns[e], set.mTagPatterns[e])
    IN  ActivateEach(done, st.parentToChildren[e])
ActivateEach(st, children) ==
    IF children = {} THEN st
    ELSE LET c == MinOf(children)
         IN  ActivateEach(World_activate(st, c), children \ {c})

\* deactivate that clears the active flags and tells no system
World_deactivate_silent(st, e) ==
    [st EXCEPT !.mActiveEntities = @ \ ({e} \cup Below(st, e))]

\* the loop of deactivate over the children that visits none of them
DeactivateEach_none(st, children) == st

RECURSIVE World_deactivate(_, _)
RECURSIVE DeactivateEach(_, _)
World_deactivate(st, e) ==
    LET done == IF ~isActive(st, e) THEN st
                ELSE onEntityDestroyed([st EXCEPT !.mActiveEntities = @ \ {e}], e)
    IN  DeactivateEach(done, st.parentToChildren[e])
DeactivateEach(st, children) ==
    IF children = {} THEN st
    ELSE LET c == MinOf(children)
         IN  DeactivateEach(World_deactivate(st, c), children \ {c})

unparent(st, e) ==
    LET oldParent == ParentOf(st, e)
    IN  [st EXCEPT !.childToParent[e] = NoEntry,
                   !.parentToChildren[oldParent] = @ \ {e}]

\* ComponentManager::entityDestroyed / copyComponents: every registered array
CM_entityDestroyed(st, e) ==
    [st EXCEPT !.mComponentArrays = [c \in CompIds |-> entityDestroyed(@[c], e)]]

copyComponents(st, prefab, dest) ==
    [st EXCEPT !.mComponentArrays = [c \in CompIds |-> copyComponent(@[c], c, prefab, dest)]]

World_entity(st, isAlive) == createEntity(st, isAlive, RootEntity)

\* World::copy up to the activation, entered below capacity
CopyInactive(st, prefab) ==
    LET newEntity == FrontID(st)
        made == World_entity(st, FALSE)
        copied == copyComponents(made, prefab, newEntity)
        patterned == [copied EXCEPT !.mPatterns[newEntity] = copied.mPatterns[prefab]]
        parent == ParentOf(patterned, prefab)
    IN  [patterned EXCEPT !.childToParent[newEntity] = parent,
                          !.parentToChildren[parent] = @ \cup {newEntity}]

World_copy(st, prefab, isAlive) ==
    IF IsFull(st) THEN st
    ELSE IF isAlive THEN World_activate(CopyInactive(st, prefab), FrontID(st))
         ELSE CopyInactive(st, prefab)

\* the body of the for loop of killEntities for one entity; the death callback of
\* the host kills cbKill (no entity when 0) before the systems hear of the death
KillOne(st, e, cbKill) ==
    LET called == IF cbKill = 0 THEN st ELSE World_kill(st, cbKill)
        told == onEntityDestroyed(called, e)
        cut == unparent(told, e)
        freed == destroyEntity(cut, e)
    IN  CM_entityDestroyed(freed, e)

\* the head of the while loop that moves mToKill and forgets what it moved
DrainRound_forget(st) ==
    [st EXCEPT !.tmpToKill = st.mToKill,
               !.mToKill = {},
               !.toVisit = st.mToKill,
               !.pc = "drain"]

\* the head of the while loop of killEntities, entered with mToKill not empty
DrainRound(st) ==
    [st EXCEPT !.tmpToKill = st.mToKill,
               !.mKilledThisFrame = @ \cup st.mToKill,
               !.mToKill = {},
               !.toVisit = st.mToKill,
               !.pc = "drain"]

\* the end of killEntities, reached with mToKill empty
DrainDone(st) ==
    [st EXCEPT !.mKilledThisFrame = {}, !.tmpToKill = {}, !.toVisit = {}, !.pc = "idle"]

\* killEntities with an if in place of the while: one round, whatever was queued in it
RoundEnd_once(st) == DrainDone([st EXCEPT !.mToKill = @ \ st.tmpToKill])

\* the second for loop of a round, then the loop test
RoundEnd(st) ==
    LET erased == [st EXCEPT !.mToKill = @ \ st.tmpToKill]
    IN  IF erased.mToKill = {} THEN DrainDone(erased) ELSE DrainRound(erased)

\* killEntities from its call to its return, with a death callback that kills
\* nothing; the entities of a round are visited in the set's iteration order, which
\* decides only the order of the freed ids
RECURSIVE VisitEach(_, _)
VisitEach(st, todo) ==
    IF todo = {} THEN st
    ELSE LET e == MinOf(todo)
         IN  VisitEach(KillOne(st, e, 0), todo \ {e})

RECURSIVE killEntities(_)
killEntities(st) ==
    IF st.mToKill = {} THEN DrainDone(st)
    ELSE LET round == DrainRound(st)
             visited == VisitEach(round, round.tmpToKill)
         IN  killEntities([visited EXCEPT !.mToKill = @ \ visited.tmpToKill])

\* Entity::isKilledThisFrame
isKilledThisFrame(st, e) == e \in st.mToKill \/ e \in st.mKilledThisFrame

\* ------------------------------------------------- SystemManager: updates

\* mUpdateSystems[ix]->update(): the code of the host; the call is recorded
update(st, ix) == [st EXCEPT !.updLog = Append(@, ix)]

\* the inner for loop of autoUpdate over the systems of one group
RECURSIVE UpdateEach(_, _)
UpdateEach(st, group) ==
    IF group = <<>> THEN st
    ELSE LET ix == Head(group)
             next == IF st.mIsWorldPaused /\ "UpdateDuringPause" \notin st.mAttributes[ix]
                     THEN st
                     ELSE update(st, ix)
         IN  UpdateEach(next, Tail(group))

\* the for loop over the groups that starts at the last group
RECURSIVE UpdateGroupsFrom_lastFirst(_, _)
UpdateGroupsFrom_lastFirst(st, groups) ==
    IF groups = <<>> THEN st
    ELSE LET g == groups[Len(groups)]
             next == IF st.mFrame % g.intervalFrame # 0 THEN st ELSE UpdateEach(st, g.group)
         IN  UpdateGroupsFrom_lastFirst(next, SubSeq(groups, 1, Len(groups) - 1))

\* the outer for loop of autoUpdate over mUpdateGroups
RECURSIVE UpdateGroupsFrom(_, _)
UpdateGroupsFrom(st, groups) ==
    IF groups = <<>> THEN st
    ELSE LET g == Head(groups)
             next == IF st.mFrame % g.intervalFrame # 0 THEN st ELSE UpdateEach(st, g.group)
         IN  UpdateGroupsFrom(next, Tail(groups))

\* autoUpdate that counts the frame before it runs the groups
autoUpdate_frameFirst(st) ==
    UpdateGroupsFrom([st EXCEPT !.mFrame = @ + 1], mUpdateGroups)

autoUpdate(st) ==
    [UpdateGroupsFrom(st, mUpdateGroups) EXCEPT !.mFrame = @ + 1]

onPaused(st) == [st EXCEPT !.mIsWorldPaused = TRUE]

\* onUnpaused that leaves the flag as it is
onUnpaused_stay(st) == st

onUnpaused(st) == [st EXCEPT !.mIsWorldPaused = FALSE]

\* World::clear(): SystemManager::clear(), a new EntityManager and a new
\* ComponentManager, mToKill emptied; then the host registers its components and
\* systems as it did at start, with new system objects
World_clear(st) ==
    [st EXCEPT !.mAvailableIDs = [i \in 1 .. (maxEntities - 1) |-> i],
               !.mEntityCount = 0,
               !.mActiveEntities = {},
               !.mPatterns = [e \in AllIds |-> {}],
               !.mTagPatterns = [e \in AllIds |-> {}],
               !.childToParent = [e \in AllIds |-> NoEntry],
               !.parentToChildren = [e \in AllIds |-> {}],
               !.mComponentArrays = [c \in CompIds |-> ComponentArray_new],
               !.mEntities = [s \in SysIds |-> {}],
               !.mDescPatterns = [d \in Descriptors |-> {}],
               !.mTraitUsers = [t \in TraitIds |-> NoTraitUsers],
               !.mFrame = 0,
               !.mIsWorldPaused = FALSE,
               !.updateCalls = 0,
               !.mToKill = {},
               !.cbBalance = [s \in SysIds |-> [e \in Ids |-> "out"]]]

\* ------------------------------------------------------------ the machine

\* the ids handed out and not yet destroyed: the handles the host holds
LiveOf(st) ==
    (1 .. (maxEntities - 1)) \ {st.mAvailableIDs[i] : i \in DOMAIN st.mAvailableIDs}
Live == (1 .. (maxEntities - 1)) \ {mAvailableIDs[i] : i \in DOMAIN mAvailableIDs}

\* ------------------------------------------- createEntity, statement by statement

Threads == 1 .. NumThreads
NoThread == 0

\* a thread that is not inside createEntity; returned lists the ids its calls
\* have returned so far, Entity{0} left out
NoCall == [at |-> "ready", isAlive |-> FALSE, id |-> 0, returned |-> <<>>]

\* a lock that every thread gets at once
lock_unguarded(mutex) == TRUE

\* std::unique_lock<std::mutex> lock{mCreatorMutex} returns when no thread holds it
lock(mutex) == mutex = NoThread

\* mAvailableIDs.front(); on an empty queue the behaviour is undefined
front(st) == IF st.mAvailableIDs = <<>> THEN AllIds ELSE {Head(st.mAvailableIDs)}

\* mAvailableIDs.pop(); on an empty queue the behaviour is undefined
pop(st) == [st EXCEPT !.mAvailableIDs = IF @ = <<>> THEN @ ELSE Tail(@)]

\* the statements of createEntity after mEntityCount++
link(st, id, isAlive, parent) ==
    LET cleared == [st.parentToChildren EXCEPT ![id] = {}]
    IN  [st EXCEPT !.mActiveEntities =
                       IF (parent = 0 \/ isActive(st, parent)) /\ isAlive
                       THEN @ \cup {id} ELSE @,
                   !.parentToChildren = [cleared EXCEPT ![parent] = @ \cup {id}],
                   !.childToParent[id] = parent]

\* EntityManager, ComponentManager, SystemManager and World as constructed, in a
\* build with MAX_ENTITIES = n, with the component types and the systems registered
InitBuild(n, passed) ==
    /\ maxEntities = n
    /\ mAttributes = [s \in SysIds |-> passed[s] \cup DerivedAttributes(s)]
    /\ mFrame = 0
    /\ mIsWorldPaused = FALSE
    /\ updateCalls = 0
    /\ mAvailableIDs = [i \in 1 .. (n - 1) |-> i]
    /\ mEntityCount = 0
    /\ mActiveEntities = {}
    /\ mPatterns = [e \in AllIds |-> {}]
    /\ mTagPatterns = [e \in AllIds |-> {}]
    /\ childToParent = [e \in AllIds |-> NoEntry]
    /\ parentToChildren = [e \in AllIds |-> {}]
    /\ mComponentArrays = [c \in CompIds |-> ComponentArray_new]
    /\ mEntities = [s \in SysIds |-> {}]
    /\ mDescPatterns = [d \in Descriptors |-> {}]
    /\ mTraitUsers = [t \in TraitIds |-> NoTraitUsers]
    /\ mToKill = {}
    /\ mKilledThisFrame = {}
    /\ tmpToKill = {}
    /\ toVisit = {}
    /\ pc = "idle"
    /\ cbBalance = [s \in SysIds |-> [e \in Ids |-> "out"]]
    /\ mCreatorMutex = NoThread
    /\ creators = [t \in Threads |-> NoCall]
    /\ operands = [this |-> DynamicBitset_new(0), other |-> DynamicBitset_new(0),
                   result |-> "none"]

\* every system registered with registerSystem<T>() / sequential<T...>() / parallel<T...>()
InitWith(n) == InitBuild(n, [s \in SysIds |-> {}])

CreateEntity(isAlive) ==
    /\ pc = "idle"
    /\ Becomes(World_entity(Cur, isAlive))

CreateChild(parent, isAlive) ==
    /\ pc = "idle"
    /\ parent \in Live
    /\ Becomes(Entity_createChild(Cur, parent, isAlive))

AddComponent(e, c) ==
    /\ pc = "idle"
    /\ e \in Live
    /\ Becomes(Entity_add(Cur, e, c, DefaultOf(c)))

RemoveComponent(e, c) ==
    /\ pc = "idle"
    /\ e \in Live
    /\ Becomes(Entity_remove(Cur, e, c))

AddTag(e, t) ==
    /\ pc = "idle"
    /\ e \in Live
    /\ Becomes(Entity_addTag(Cur, e, t))

RemoveTag(e, t) ==
    /\ pc = "idle"
    /\ e \in Live
    /\ Becomes(Entity_removeTag(Cur, e, t))

Activate(e) ==
    /\ pc = "idle"
    /\ e \in Live
    /\ ~Loops(Cur, e)
    /\ Becomes(World_activate(Cur, e))

Deactivate(e) ==
    /\ pc = "idle"
    /\ e \in Live
    /\ ~Loops(Cur, e)
    /\ Becomes(World_deactivate(Cur, e))

\* the activation of a copy recurses over its children like activate
MayCopy(prefab, isAlive) ==
    (isAlive /\ ~IsFull(Cur)) => ~Loops(CopyInactive(Cur, prefab), FrontID(Cur))

Copy(prefab, isAlive) ==
    /\ pc = "idle"
    /\ prefab \in Live
    /\ MayCopy(prefab, isAlive)
    /\ Becomes(World_copy(Cur, prefab, isAlive))

\* the host never makes an entity its own ancestor
AddChild(parent, child) ==
    /\ pc = "idle"
    /\ parent \in Live
    /\ child \in Live
    /\ parent # child
    /\ parent \notin Below(Cur, child)
    /\ Becomes(Entity_addChild(Cur, parent, child))

Orphan(e) ==
    /\ pc = "idle"
    /\ e \in Live
    /\ Becomes(Entity_orphan(Cur, e))

Kill(e) ==
    /\ pc = "idle"
    /\ e \in Live
    /\ ~Loops(Cur, e)
    /\ Becomes(World_kill(Cur, e))

KillEntitiesBegin ==
    /\ pc = "idle"
    /\ Becomes(IF mToKill = {} THEN DrainDone(Cur) ELSE DrainRound(Cur))

\* what the death callback may kill: nothing, or an entity the host holds
KillChoices == {0} \cup {k \in Live : ~Loops(Cur, k)}

KillEntitiesDestroy(e, cbKill) ==
    /\ pc = "drain"
    /\ e \in toVisit
    /\ cbKill \in KillChoices
    /\ Becomes([KillOne(Cur, e, cbKill) EXCEPT !.toVisit = @ \ {e}])

KillEntitiesRoundEnd ==
    /\ pc = "drain"
    /\ toVisit = {}
    /\ Becomes(RoundEnd(Cur))

Next ==
    \/ \E a \in BOOLEAN : CreateEntity(a)
    \/ \E p \in Ids, a \in BOOLEAN : CreateChild(p, a)
    \/ \E e \in Ids, c \in CompIds : AddComponent(e, c)
    \/ \E e \in Ids, c \in CompIds : RemoveComponent(e, c)
    \/ \E e \in Ids, t \in TagIds : AddTag(e, t)
    \/ \E e \in Ids, t \in TagIds : RemoveTag(e, t)
    \/ \E e \in Ids : Activate(e)
    \/ \E e \in Ids : Deactivate(e)
    \/ \E e \in Ids, a \in BOOLEAN : Copy(e, a)
    \/ \E p \in Ids, c \in Ids : AddChild(p, c)
    \/ \E e \in Ids : Orphan(e)
    \/ \E e \in Ids : Kill(e)
    \/ KillEntitiesBegin
    \/ \E e \in Ids, k \in AllIds : KillEntitiesDestroy(e, k)
    \/ KillEntitiesRoundEnd

Init == InitWith(FlatEntities)

Spec == Init /\ [][Next]_vars

\* the larger build, under the operations that do not attach components or tags,
\* with a death callback that kills nothing
InitTree == InitWith(TreeEntities)

NextTree ==
    \/ \E a \in BOOLEAN : CreateEntity(a)
    \/ \E p \in Ids, a \in BOOLEAN : CreateChild(p, a)
    \/ \E e \in Ids : Activate(e)
    \/ \E e \in Ids : Deactivate(e)
    \/ \E e \in Ids, a \in BOOLEAN : Copy(e, a)
    \/ \E p \in Ids, c \in Ids : AddChild(p, c)
    \/ \E e \in Ids : Orphan(e)
    \/ \E e \in Ids : Kill(e)
    \/ KillEntitiesBegin
    \/ \E e \in Ids : KillEntitiesDestroy(e, 0)
    \/ KillEntitiesRoundEnd

SpecTree == InitTree /\ [][NextTree]_vars

\* ------------------------------------------- the ComponentArray on its own

\* the array of a registered component type driven through its own interface, as
\* ComponentManager drives it, with any value and any entity id but the dummy 0
ArrayAdd(c, e, v) ==
    /\ mComponentArrays' = [mComponentArrays EXCEPT ![c] = addData(@, e, v)]
    /\ UNCHANGED aside
    /\ UNCHANGED <<maxEntities, mAvailableIDs, mEntityCount, mActiveEntities, mPatterns,
                   mDescPatterns, mTraitUsers, mAttributes, mFrame, mIsWorldPaused,
                   updateCalls,
                   mTagPatterns, childToParent, parentToChildren, mEntities, mToKill,
                   mKilledThisFrame, tmpToKill, toVisit, pc, cbBalance>>

\* setData asserts that the entity has a value
ArraySet(c, e, v) ==
    /\ hasData(mComponentArrays[c], e)
    /\ mComponentArrays' = [mComponentArrays EXCEPT ![c] = setData(@, e, v)]
    /\ UNCHANGED aside
    /\ UNCHANGED <<maxEntities, mAvailableIDs, mEntityCount, mActiveEntities, mPatterns,
                   mDescPatterns, mTraitUsers, mAttributes, mFrame, mIsWorldPaused,
                   updateCalls,
                   mTagPatterns, childToParent, parentToChildren, mEntities, mToKill,
                   mKilledThisFrame, tmpToKill, toVisit, pc, cbBalance>>

ArrayRemove(c, e) ==
    /\ mComponentArrays' = [mComponentArrays EXCEPT ![c] = removeData(@, e)]
    /\ UNCHANGED aside
    /\ UNCHANGED <<maxEntities, mAvailableIDs, mEntityCount, mActiveEntities, mPatterns,
                   mDescPatterns, mTraitUsers, mAttributes, mFrame, mIsWorldPaused,
                   updateCalls,
                   mTagPatterns, childToParent, parentToChildren, mEntities, mToKill,
                   mKilledThisFrame, tmpToKill, toVisit, pc, cbBalance>>

ArrayEntityDestroyed(c, e) ==
    /\ mComponentArrays' = [mComponentArrays EXCEPT ![c] = entityDestroyed(@, e)]
    /\ UNCHANGED aside
    /\ UNCHANGED <<maxEntities, mAvailableIDs, mEntityCount, mActiveEntities, mPatterns,
                   mDescPatterns, mTraitUsers, mAttributes, mFrame, mIsWorldPaused,
                   updateCalls,
                   mTagPatterns, childToParent, parentToChildren, mEntities, mToKill,
                   mKilledThisFrame, tmpToKill, toVisit, pc, cbBalance>>

\* World::copy hands copyComponent a destination it has just created
ArrayCopy(c, prefab, dest) ==
    /\ prefab # dest
    /\ mComponentArrays' = [mComponentArrays EXCEPT ![c] = copyComponent(@, c, prefab, dest)]
    /\ UNCHANGED aside
    /\ UNCHANGED <<maxEntities, mAvailableIDs, mEntityCount, mActiveEntities, mPatterns,
                   mDescPatterns, mTraitUsers, mAttributes, mFrame, mIsWorldPaused,
                   updateCalls,
                   mTagPatterns, childToParent, parentToChildren, mEntities, mToKill,
                   mKilledThisFrame, tmpToKill, toVisit, pc, cbBalance>>

NextArray ==
    \/ \E e \in Ids, v \in Values : ArrayAdd(Position, e, v)
    \/ \E e \in Ids, v \in Values : ArraySet(Position, e, v)
    \/ \E e \in Ids : ArrayRemove(Position, e)
    \/ \E e \in Ids : ArrayEntityDestroyed(Position, e)
    \/ \E p \in Ids, d \in Ids : ArrayCopy(Position, p, d)

SpecArray == InitTree /\ [][NextArray]_vars

\* the flat build under the operations on values: add<T>(v), set<T>(v),
\* remove<T>() and copy
AddValue(e, c, v) ==
    /\ pc = "idle"
    /\ e \in Live
    /\ Becomes(Entity_add(Cur, e, c, v))

SetValue(e, c, v) ==
    /\ pc = "idle"
    /\ e \in Live
    /\ Becomes(Entity_set(Cur, e, c, v))

NextCopy ==
    \/ \E a \in BOOLEAN : CreateEntity(a)
    \/ \E e \in Ids, c \in CompIds, v \in Values : AddValue(e, c, v)
    \/ \E e \in Ids, c \in CompIds, v \in Values : SetValue(e, c, v)
    \/ \E e \in Ids, c \in CompIds : RemoveComponent(e, c)
    \/ \E e \in Ids, a \in BOOLEAN : Copy(e, a)

SpecCopy == Init /\ [][NextCopy]_vars

\* the flat build under the operations on components, tags and traits: the host
\* attaches the trait to the descriptor entity of a component or tag,
\* world.component<C>().add<Named>(), and removes it again
AttachTrait(d, trait) ==
    /\ pc = "idle"
    /\ Becomes(addToMgr_descriptor(Cur, d, trait))

DetachTrait(d, trait) ==
    /\ pc = "idle"
    /\ trait \in mDescPatterns[d]
    /\ Becomes(removeFromMgr_descriptor(Cur, d, trait))

NextTrait ==
    \/ \E a \in BOOLEAN : CreateEntity(a)
    \/ \E e \in Ids, c \in CompIds : AddComponent(e, c)
    \/ \E e \in Ids, c \in CompIds : RemoveComponent(e, c)
    \/ \E e \in Ids, t \in TagIds : AddTag(e, t)
    \/ \E e \in Ids, t \in TagIds : RemoveTag(e, t)
    \/ \E d \in Descriptors, t \in TraitIds : AttachTrait(d, t)
    \/ \E d \in Descriptors, t \in TraitIds : DetachTrait(d, t)

SpecTrait == Init /\ [][NextTrait]_vars

\* the flat build under the frame loop of the host: autoUpdate(), pause(),
\* unpause() and clear(), with entities created and components added in between
AutoUpdate ==
    /\ pc = "idle"
    /\ mFrame < MaxFrame
    /\ Becomes([autoUpdate(Cur) EXCEPT !.updateCalls = @ + 1])

Pause ==
    /\ pc = "idle"
    /\ Becomes(onPaused(Cur))

Unpause ==
    /\ pc = "idle"
    /\ Becomes(onUnpaused(Cur))

Clear ==
    /\ pc = "idle"
    /\ Becomes(World_clear(Cur))

NextUpdate ==
    \/ AutoUpdate
    \/ Pause
    \/ Unpause
    \/ Clear
    \/ \E a \in BOOLEAN : CreateEntity(a)
    \/ \E e \in Ids, c \in CompIds : AddComponent(e, c)

SpecUpdate == Init /\ [][NextUpdate]_vars

\* the flat build with systems 1 and 3 registered with registerSystem<T>(UniqueEntity),
\* under the operations that change patterns and active flags
InitUnique ==
    InitBuild(FlatEntities,
              [s \in SysIds |-> IF s \in {1, 3} THEN {"UniqueEntity"} ELSE {}])

NextUnique ==
    \/ \E a \in BOOLEAN : CreateEntity(a)
    \/ \E e \in Ids, c \in CompIds : AddComponent(e, c)
    \/ \E e \in Ids, c \in CompIds : RemoveComponent(e, c)
    \/ \E e \in Ids, t \in TagIds : AddTag(e, t)
    \/ \E e \in Ids, t \in TagIds : RemoveTag(e, t)
    \/ \E e \in Ids : Activate(e)
    \/ \E e \in Ids : Deactivate(e)
    \/ \E e \in Ids, a \in BOOLEAN : Copy(e, a)

SpecUnique == InitUnique /\ [][NextUnique]_vars

\* the threads call createEntity(isAlive, root) again and again; a step is one
\* statement of one thread
Call(t, isAlive) ==
    /\ pc = "idle"
    /\ creators[t].at = "ready"
    /\ lock(mCreatorMutex)
    /\ mCreatorMutex' = t
    /\ creators' = [creators EXCEPT ![t].at = "check", ![t].isAlive = isAlive, ![t].id = 0]
    /\ Continues(Cur)
    /\ UNCHANGED operands

CheckFull(t) ==
    /\ creators[t].at = "check"
    /\ creators' = [creators EXCEPT ![t].at = IF IsFull(Cur) THEN "return" ELSE "front"]
    /\ Continues(Cur)
    /\ UNCHANGED <<mCreatorMutex, operands>>

Front(t) ==
    /\ creators[t].at = "front"
    /\ \E id \in front(Cur) : creators' = [creators EXCEPT ![t].at = "pop", ![t].id = id]
    /\ Continues(Cur)
    /\ UNCHANGED <<mCreatorMutex, operands>>

Pop(t) ==
    /\ creators[t].at = "pop"
    /\ creators' = [creators EXCEPT ![t].at = "count"]
    /\ Continues(pop(Cur))
    /\ UNCHANGED <<mCreatorMutex, operands>>

Count(t) ==
    /\ creators[t].at = "count"
    /\ creators' = [creators EXCEPT ![t].at = "link"]
    /\ Continues([Cur EXCEPT !.mEntityCount = @ + 1])
    /\ UNCHANGED <<mCreatorMutex, operands>>

Link(t) ==
    /\ creators[t].at = "link"
    /\ creators' = [creators EXCEPT ![t].at = "return"]
    /\ Continues(link(Cur, creators[t].id, creators[t].isAlive, RootEntity))
    /\ UNCHANGED <<mCreatorMutex, operands>>

\* return: the lock is released and the caller has the id
Return(t) ==
    /\ creators[t].at = "return"
    /\ mCreatorMutex' = NoThread
    /\ creators' = [creators EXCEPT ![t].at = "ready",
                                    ![t].returned = IF creators[t].id = 0 THEN @
                                                    ELSE Append(@, creators[t].id)]
    /\ Continues(Cur)
    /\ UNCHANGED operands

NextThreads ==
    \/ \E t \in Threads, a \in BOOLEAN : Call(t, a)
    \/ \E t \in Threads : CheckFull(t)
    \/ \E t \in Threads : Front(t)
    \/ \E t \in Threads : Pop(t)
    \/ \E t \in Threads : Count(t)
    \/ \E t \in Threads : Link(t)
    \/ \E t \in Threads : Return(t)

SpecThreads == InitTree /\ [][NextThreads]_vars

\* two bitsets of one size, built by the constructor and by set(pos, value), and
\* contains called on them
BitsetSizes == {3, BITS_PER_BLOCK, MaxBits}
TestedBits == {0, 1, BITS_PER_BLOCK - 1, BITS_PER_BLOCK, MaxBits - 1}

Construct(size) ==
    /\ operands.this.mNumBits = 0
    /\ operands' = [this |-> DynamicBitset_new(size), other |-> DynamicBitset_new(size),
                    result |-> "none"]
    /\ Continues(Cur)
    /\ UNCHANGED <<mCreatorMutex, creators>>

SetThis(pos, value) ==
    /\ pos < operands.this.mNumBits
    /\ operands' = [operands EXCEPT !.this = DynamicBitset_set(@, pos, value),
                                    !.result = "none"]
    /\ Continues(Cur)
    /\ UNCHANGED <<mCreatorMutex, creators>>

SetOther(pos, value) ==
    /\ pos < operands.other.mNumBits
    /\ operands' = [operands EXCEPT !.other = DynamicBitset_set(@, pos, value),
                                    !.result = "none"]
    /\ Continues(Cur)
    /\ UNCHANGED <<mCreatorMutex, creators>>

CallContains ==
    /\ operands.this.mNumBits > 0
    /\ operands' = [operands EXCEPT !.result =
                        IF DynamicBitset_contains(operands.this, operands.other)
                        THEN "true" ELSE "false"]
    /\ Continues(Cur)
    /\ UNCHANGED <<mCreatorMutex, creators>>

NextBitset ==
    \/ \E size \in BitsetSizes : Construct(size)
    \/ \E pos \in TestedBits, value \in BOOLEAN : SetThis(pos, value)
    \/ \E pos \in TestedBits, value \in BOOLEAN : SetOther(pos, value)
    \/ CallContains

SpecBitset == Init /\ [][NextBitset]_vars

\* the larger build under the operations that make families of entities with and
\* without Position, the component of the ExcludeChildren system
NextFamily ==
    \/ \E a \in BOOLEAN : CreateEntity(a)
    \/ \E p \in Ids, a \in BOOLEAN : CreateChild(p, a)
    \/ \E e \in Ids : AddComponent(e, Position)
    \/ \E e \in Ids : RemoveComponent(e, Position)
    \/ \E p \in Ids, c \in Ids : AddChild(p, c)
    \/ \E e \in Ids : Activate(e)
    \/ \E e \in Ids : Deactivate(e)

SpecFamily == InitTree /\ [][NextFamily]_vars

\* a step of a running killEntities, told by what each of them changes: it visits
\* an entity of the round, or it ends the round and returns or starts the next
KillEntitiesRuns ==
    /\ pc = "drain"
    /\ pc' \in {"drain", "idle"}
    /\ toVisit' \in SUBSET Ids

\* killEntities runs on the calling thread until its loop ends
SpecDrain == Init /\ [][Next]_vars /\ WF_<<pc, toVisit>>(KillEntitiesRuns)

\* ------------------------------------------------------------- properties

\* the declared signature of system s: the types it requires and those it excludes
Required(s) == {d \in SystemDecl(s).types : ~d.exclude /\ ~d.trait}
Excluded(s) == {d \in SystemDecl(s).types : d.exclude}

\* entity e carries the declared component or tag d
Carries(e, d) == IF d.isTag THEN d.id \in mTagPatterns[e] ELSE d.id \in mPatterns[e]

\* entity e carries a component or tag whose descriptor entity holds the trait t
Implements(e, t) == \E d \in Descriptors : Carries(e, d) /\ t \in mDescPatterns[d]

\* C1: for every system without the ExcludeChildren attribute and every entity, the
\* entity is in the system's membership set exactly when it is active, carries every
\* required type and carries no excluded type.
C1_MembershipIsMatch ==
    \A s \in SysIds, e \in Ids :
        ~IsExcludeChildren(s) =>
            (e \in mEntities[s] <=>
                /\ e \in mActiveEntities
                /\ \A d \in Required(s) : Carries(e, d)
                /\ \A d \in Excluded(s) : ~Carries(e, d)
                /\ \A t \in System(s).mTraits : Implements(e, t))

Holders(a) == {e \in AllIds : hasData(a, e)}

\* C3: in every ComponentArray the values occupy exactly the indices below mSize,
\* the two maps are inverse to each other there, an entity without a value maps to
\* -1, and removeData of an entity that holds a value leaves one element fewer.
C3_Density ==
    \A c \in CompIds :
        LET a == mComponentArrays[c]
        IN  /\ {a.mEntityToIndex[e] : e \in Holders(a)} = 0 .. (a.mSize - 1)
            /\ Cardinality(Holders(a)) = a.mSize
            /\ \A e \in Holders(a) : a.mIndexToEntity[a.mEntityToIndex[e]] = e
            /\ \A i \in 0 .. (a.mSize - 1) : a.mEntityToIndex[a.mIndexToEntity[i]] = i
            /\ \A e \in AllIds \ Holders(a) : a.mEntityToIndex[e] = -1
            /\ \A e \in Holders(a) :
                /\ removeData(a, e).mSize = a.mSize - 1
                /\ Holders(removeData(a, e)) = Holders(a) \ {e}

\* an array of three values whose first entity is removed: the last one moves down
C3_Witness ==
    \E c \in CompIds, e \in Ids :
        LET a == mComponentArrays[c]
        IN  /\ a.mSize = 3
            /\ a.mEntityToIndex[e] = 0
            /\ removeData(a, e).mEntityToIndex[a.mIndexToEntity[2]] = 0
            /\ removeData(a, e).mSize = 2

\* C4: removeData(e) leaves the value getData returns unchanged for every other
\* entity that holds a value, the one moved from the last slot included.
C4_RemoveKeepsOthers ==
    \A c \in CompIds, e \in Ids, other \in Ids :
        LET a == mComponentArrays[c]
        IN  (e # other /\ hasData(a, e) /\ hasData(a, other)) =>
                /\ hasData(removeData(a, e), other)
                /\ getData(removeData(a, e), other) = getData(a, other)

\* the removed entity is not in the last slot and the entity of the last slot
\* holds another value: the value moves and is read back through the new index
C4_Witness ==
    \E c \in CompIds, e \in Ids, other \in Ids :
        LET a == mComponentArrays[c]
        IN  /\ hasData(a, e) /\ hasData(a, other)
            /\ a.mEntityToIndex[other] = a.mSize - 1
            /\ a.mEntityToIndex[e] < a.mSize - 1
            /\ getData(a, e) # getData(a, other)
            /\ removeData(a, e).mEntityToIndex[other] = a.mEntityToIndex[e]
            /\ getData(removeData(a, e), other) = getData(a, other)

\* C5: for every monitor system and entity the calls of onAdd and onRemove
\* alternate, onAdd first, and the last call was onAdd exactly when the entity is
\* in the membership set: one onAdd per entry, one onRemove per exit.
C5_CallbacksAlternate ==
    \A s \in SysIds, e \in Ids :
        IsMonitor(s) =>
            /\ cbBalance[s][e] # "bad"
            /\ cbBalance[s][e] = "in" <=> e \in mEntities[s]

\* an entity told onAdd by the plain system, and out of the ExcludeChildren system
\* although it is active and carries its component: it is excluded as a child
C5_Witness ==
    \E e \in Live :
        /\ cbBalance[1][e] = "in"
        /\ e \in mActiveEntities
        /\ Position \in mPatterns[e]
        /\ cbBalance[5][e] = "out"

\* every onAdd of the log finds the required components of its system stored
OnAddSeesRequired(st) ==
    \A i \in DOMAIN st.cbLog :
        st.cbLog[i].kind = "onAdd" => System(st.cbLog[i].s).mPattern \subseteq st.cbLog[i].stored

\* C6: whichever operation the host runs next, every onAdd callback it triggers
\* finds a stored value for each component its system requires, the component
\* whose addition triggered it included.
C6_OnAddSeesComponents ==
    pc = "idle" =>
        \A e \in Live :
            /\ \A c \in CompIds, v \in Values : OnAddSeesRequired(Entity_add(Cur, e, c, v))
            /\ \A c \in CompIds : OnAddSeesRequired(Entity_remove(Cur, e, c))
            /\ \A t \in TagIds : OnAddSeesRequired(Entity_addTag(Cur, e, t))
            /\ \A t \in TagIds : OnAddSeesRequired(Entity_removeTag(Cur, e, t))
            /\ ~Loops(Cur, e) => OnAddSeesRequired(World_activate(Cur, e))
            /\ \A a \in BOOLEAN : MayCopy(e, a) => OnAddSeesRequired(World_copy(Cur, e, a))

\* an active entity with Position alone is given Velocity: the onAdd of the system
\* over both runs and finds both stored
C6_Witness ==
    /\ pc = "idle"
    /\ \E e \in Live :
        /\ e \in mActiveEntities
        /\ mPatterns[e] = {Position}
        /\ LET st == Entity_add(Cur, e, Velocity, DefaultValue)
           IN  \E i \in DOMAIN st.cbLog :
                   /\ st.cbLog[i].kind = "onAdd"
                   /\ st.cbLog[i].s = 1
                   /\ st.cbLog[i].e = e
                   /\ st.cbLog[i].stored = {Position, Velocity}

\* every onRemove of the log finds stored what its entity held in the state before
OnRemoveSeesHeld(st) ==
    \A i \in DOMAIN st.cbLog :
        st.cbLog[i].kind = "onRemove" => Stored(Cur, st.cbLog[i].e) \subseteq st.cbLog[i].stored

\* C7: whichever operation runs next, the steps of the killEntities drain
\* included, every onRemove callback it triggers finds stored every component
\* value its entity held before the operation, the one being removed included.
C7_OnRemoveSeesComponents ==
    IF pc = "idle"
    THEN \A e \in Live :
            /\ \A c \in CompIds, v \in Values : OnRemoveSeesHeld(Entity_add(Cur, e, c, v))
            /\ \A c \in CompIds : OnRemoveSeesHeld(Entity_remove(Cur, e, c))
            /\ \A t \in TagIds : OnRemoveSeesHeld(Entity_addTag(Cur, e, t))
            /\ \A t \in TagIds : OnRemoveSeesHeld(Entity_removeTag(Cur, e, t))
            /\ ~Loops(Cur, e) => OnRemoveSeesHeld(World_activate(Cur, e))
            /\ ~Loops(Cur, e) => OnRemoveSeesHeld(World_deactivate(Cur, e))
            /\ \A a \in BOOLEAN : MayCopy(e, a) => OnRemoveSeesHeld(World_copy(Cur, e, a))
    ELSE \A e \in toVisit, k \in KillChoices : OnRemoveSeesHeld(KillOne(Cur, e, k))

\* a member of the system over both components loses Position: the onRemove of
\* that system runs and still finds both stored
C7_Witness ==
    /\ pc = "idle"
    /\ \E e \in Live :
        /\ e \in mEntities[1]
        /\ LET st == Entity_remove(Cur, e, Position)
           IN  \E i \in DOMAIN st.cbLog :
                   /\ st.cbLog[i].kind = "onRemove"
                   /\ st.cbLog[i].s = 1
                   /\ st.cbLog[i].e = e
                   /\ st.cbLog[i].stored = {Position, Velocity}

\* C8: kill(e) adds e and the entities below it to mToKill and changes nothing
\* else: no membership set, pattern, array, active flag, parent or child entry,
\* no entity count, and no callback runs.
C8_KillOnlyQueues ==
    pc = "idle" =>
        \A e \in Live :
            ~Loops(Cur, e) =>
                /\ World_kill(Cur, e).mToKill = mToKill \cup {e} \cup Below(Cur, e)
                /\ [World_kill(Cur, e) EXCEPT !.mToKill = mToKill] = Cur

\* an active member of a system with a live child, neither of them queued yet
C8_Witness ==
    /\ pc = "idle"
    /\ \E e \in Live, c \in Live :
        /\ c \in parentToChildren[e]
        /\ ~Loops(Cur, e)
        /\ e \in mActiveEntities
        /\ e \in mEntities[1]
        /\ mToKill = {}
        /\ World_kill(Cur, e).mToKill = {e, c}

\* C9: a running killEntities comes to its end with mToKill empty, and at its end
\* every entity it took up, in the first round or in a later one, is destroyed.
C9_DrainTerminates ==
    /\ [][(pc = "drain" /\ pc' = "idle") =>
            /\ mToKill' = {}
            /\ (mKilledThisFrame \cup mToKill) \cap LiveOf([mAvailableIDs |-> mAvailableIDs']) = {}]_vars
    /\ (pc = "drain") ~> (pc = "idle" /\ mToKill = {})

\* a second round of one call: what was killed this frame is more than this round
C9_Witness ==
    /\ pc = "drain"
    /\ tmpToKill # {}
    /\ tmpToKill # mKilledThisFrame

\* no entry of childToParent or parentToChildren names a destroyed entity
NoDangling(st) ==
    /\ \A e \in AllIds :
        st.childToParent[e] # NoEntry =>
            /\ e \in LiveOf(st)
            /\ st.childToParent[e] \in LiveOf(st) \cup {RootEntity}
    /\ \A p \in AllIds :
        st.parentToChildren[p] # {} =>
            /\ p \in LiveOf(st) \cup {RootEntity}
            /\ st.parentToChildren[p] \subseteq LiveOf(st)

\* C10: from a state without a dangling entry and with nothing queued, kill(p)
\* followed by killEntities() destroys p and everything below p and leaves no
\* entry of childToParent or parentToChildren that names a destroyed entity.
C10_KillLeavesNoDangling ==
    (pc = "idle" /\ mToKill = {} /\ NoDangling(Cur)) =>
        \A p \in Live :
            ~Loops(Cur, p) =>
                LET after == killEntities(World_kill(Cur, p))
                IN  /\ ({p} \cup Below(Cur, p)) \cap LiveOf(after) = {}
                    /\ NoDangling(after)

\* the ids in the free queue
FreeIds(st) == {st.mAvailableIDs[i] : i \in DOMAIN st.mAvailableIDs}

WasDestroyed(st, e) ==
    \E i \in DOMAIN st.mAvailableIDs :
        /\ st.mAvailableIDs[i] = e
        /\ \E d \in Ids :
                /\ d > e
                /\ \/ d \in LiveOf(st)
                   \/ \E j \in 1 .. (i - 1) : st.mAvailableIDs[j] = d

\* C13: kill(e) followed by killEntities() for an entity e that was destroyed
\* earlier, whose id is still free, changes neither the entity count, nor the
\* free queue, nor a pattern, nor the component storage, nor a membership set.
C13_DoubleDestroyIsNoOp ==
    (pc = "idle" /\ mToKill = {}) =>
        \A e \in Ids :
            (WasDestroyed(Cur, e) /\ ~Loops(Cur, e)) =>
                LET after == killEntities(World_kill(Cur, e))
                IN  /\ after.mEntityCount = mEntityCount
                    /\ after.mAvailableIDs = mAvailableIDs
                    /\ after.mPatterns = mPatterns
                    /\ after.mTagPatterns = mTagPatterns
                    /\ after.mComponentArrays = mComponentArrays
                    /\ after.mEntities = mEntities

\* C14: between operations every live entity c is in the children set of p
\* exactly when p is the parent of c, so c is in one children set only.
C14_OneParent ==
    pc = "idle" =>
        \A c \in Live : \A p \in AllIds :
            c \in parentToChildren[p] <=> ParentOf(Cur, c) = p

\* the value of type t that e holds in the world st
ValueOf(st, t, e) == getData(st.mComponentArrays[t], e)

\* e holds in st the pattern and the values it holds in before
SameValues(before, st, e) ==
    /\ st.mPatterns[e] = before.mPatterns[e]
    /\ \A t \in CompIds :
        /\ hasData(st.mComponentArrays[t], e) <=> hasData(before.mComponentArrays[t], e)
        /\ hasData(before.mComponentArrays[t], e) => ValueOf(st, t, e) = ValueOf(before, t, e)

\* C15: after c = copy(prefab), c holds for every type the prefab held a value
\* equal to the prefab's at copy time, the prefab holds what it held before,
\* and no set, add or remove on c changes a value or a pattern bit of the prefab.
C15_CopyIsIndependent ==
    (pc = "idle" /\ ~IsFull(Cur)) =>
        \A prefab \in Live : \A a \in BOOLEAN :
            LET c == Created(Cur)
                after == World_copy(Cur, prefab, a)
            IN  /\ \A t \in CompIds :
                        hasData(mComponentArrays[t], prefab) =>
                            /\ hasData(after.mComponentArrays[t], c)
                            /\ ValueOf(after, t, c) = ValueOf(Cur, t, prefab)
                /\ SameValues(Cur, after, prefab)
                /\ \A t \in CompIds : \A v \in Values :
                        /\ SameValues(after, Entity_add(after, c, t, v), prefab)
                        /\ SameValues(after, Entity_remove(after, c, t), prefab)
                        /\ hasData(after.mComponentArrays[t], c) =>
                                SameValues(after, Entity_set(after, c, t, v), prefab)

\* C16: after c = copy(prefab, isActive) succeeds, c has the component pattern
\* and the tag pattern of the prefab and the parent of the prefab, and c is
\* active exactly when isActive is true.
C16_CopyMatchesPrefab ==
    (pc = "idle" /\ ~IsFull(Cur)) =>
        \A prefab \in Live : \A a \in BOOLEAN :
            MayCopy(prefab, a) =>
                LET c == Created(Cur)
                    after == World_copy(Cur, prefab, a)
                IN  /\ after.mPatterns[c] = mPatterns[prefab]
                    /\ after.mTagPatterns[c] = mTagPatterns[prefab]
                    /\ ParentOf(after, c) = ParentOf(Cur, prefab)
                    /\ isActive(after, c) <=> a

\* C17: for an entity e that does not hold T, add<T>(v) followed by remove<T>()
\* leaves the pattern of e, the size and both index maps of the array of T and
\* the membership set of every system as they were before the add.
C17_AddRemoveRestores ==
    pc = "idle" =>
        \A e \in Live : \A c \in CompIds : \A v \in Values :
            (c \notin mPatterns[e] /\ ~hasData(mComponentArrays[c], e)) =>
                LET after == Entity_remove(Entity_add(Cur, e, c, v), e, c)
                IN  /\ after.mPatterns = mPatterns
                    /\ after.mTagPatterns = mTagPatterns
                    /\ after.mComponentArrays[c].mSize = mComponentArrays[c].mSize
                    /\ after.mComponentArrays[c].mEntityToIndex
                            = mComponentArrays[c].mEntityToIndex
                    /\ after.mComponentArrays[c].mIndexToEntity
                            = mComponentArrays[c].mIndexToEntity
                    /\ after.mEntities = mEntities

\* the systems e joins when the systems examine it in st: its patterns match and
\* no ExcludeChildren rule keeps it out
Admits(st, s, e) ==
    /\ isMatch(st, s, e)
    /\ ~(IsExcludeChildren(s) /\ isMatch(st, s, ParentOf(st, e)))

\* C18: every member of a system is active. A component or tag added to an
\* inactive entity puts it into no system; activating it puts it into the systems
\* that admit it; deactivating an entity takes it out of every system.
C18_MembersAreActive ==
    /\ \A s \in SysIds : mEntities[s] \subseteq mActiveEntities
    /\ pc = "idle" =>
        \A e \in Live :
            /\ ~isActive(Cur, e) =>
                    \A st \in {Entity_add(Cur, e, c, v) : c \in CompIds, v \in Values}
                               \cup {Entity_addTag(Cur, e, t) : t \in TagIds} :
                        /\ \A s \in SysIds : e \notin st.mEntities[s]
                        /\ ~Loops(st, e) =>
                                \A s \in SysIds :
                                    Admits(st, s, e) => e \in World_activate(st, e).mEntities[s]
            /\ ~Loops(Cur, e) =>
                    LET off == World_deactivate(Cur, e)
                    IN  /\ ~isActive(off, e)
                        /\ \A s \in SysIds : e \notin off.mEntities[s]

C18_Witness ==
    /\ pc = "idle"
    /\ \E e \in Live :
            /\ ~isActive(Cur, e)
            /\ ~Loops(Cur, e)
            /\ Position \in mPatterns[e]
            /\ e \in World_activate(Cur, e).mEntities[5]
    /\ \E e \in Live :
            /\ ~Loops(Cur, e)
            /\ e \in mEntities[5]
            /\ e \notin World_deactivate(Cur, e).mEntities[5]

\* C19: between operations no member of an ExcludeChildren system has a parent
\* whose patterns match that system (no entity carries
\* OverrideAttributeIgnoreChildren).
C19_ChildrenExcluded ==
    pc = "idle" =>
        \A s \in SysIds :
            IsExcludeChildren(s) =>
                \A e \in mEntities[s] : ~isMatch(Cur, s, ParentOf(Cur, e))

\* C20: a system with MatchTrait requirements matches an entity exactly when, for
\* every trait it requires, the entity carries a component or tag whose
\* descriptor entity holds the trait now.
C20_TraitMatchIsCurrent ==
    \A s \in SysIds :
        System(s).mTraits # {} =>
            \A e \in Live :
                isMatch(Cur, s, e) <=> \A t \in System(s).mTraits : Implements(e, t)

\* the systems an autoUpdate() call from the current state updates
Updated(st) == {st.updLog[i] : i \in DOMAIN st.updLog}

\* the systems of the update group g
GroupSystems(g) == {g.group[i] : i \in DOMAIN g.group}

\* the systems update() may be called on in the current state
MayUpdate(ix) == ~mIsWorldPaused \/ "UpdateDuringPause" \in mAttributes[ix]

\* C21: mFrame is the number k of autoUpdate() calls since the start or the last
\* clear, paused or not; the next call adds one to it after the groups have run
\* and updates the systems of a group with interval n exactly when k mod n = 0.
C21_GroupsRunOnInterval ==
    /\ mFrame = updateCalls
    /\ pc = "idle" =>
            LET after == autoUpdate(Cur)
            IN  /\ after.mFrame = updateCalls + 1
                /\ \A i \in DOMAIN mUpdateGroups :
                        LET g == mUpdateGroups[i]
                        IN  Updated(after) \cap GroupSystems(g) =
                                IF updateCalls % g.intervalFrame = 0
                                THEN {ix \in GroupSystems(g) : MayUpdate(ix)}
                                ELSE {}

C21_Witness ==
    /\ pc = "idle"
    /\ updateCalls = 3
    /\ mIsWorldPaused
    /\ \E e \in Live : Position \in mPatterns[e]
    /\ Updated(autoUpdate(Cur)) = {2}

\* the systems of the groups that are due at the next autoUpdate() call
Due == UNION {GroupSystems(mUpdateGroups[i]) :
                i \in {j \in DOMAIN mUpdateGroups : mFrame % mUpdateGroups[j].intervalFrame = 0}}

\* C22: while the world is paused autoUpdate() updates the systems of the due
\* groups that carry UpdateDuringPause and no other system; once unpaused it
\* updates every system of the due groups.
C22_PauseSkipsSystems ==
    pc = "idle" =>
        /\ mIsWorldPaused =>
                Updated(autoUpdate(Cur)) = {ix \in Due : "UpdateDuringPause" \in mAttributes[ix]}
        /\ Updated(autoUpdate(onUnpaused(Cur))) = Due

C22_Witness ==
    /\ pc = "idle"
    /\ mIsWorldPaused
    /\ updateCalls = 2
    /\ autoUpdate(Cur).updLog = <<2, 5>>
    /\ autoUpdate(onUnpaused(Cur)).updLog = <<1, 2, 3, 5>>

\* the position of system ix in the order of registration, and of its group
RegisteredAt(ix) == ix
GroupOf(ix) == CHOOSE i \in DOMAIN mUpdateGroups : ix \in GroupSystems(mUpdateGroups[i])

\* C23: within one autoUpdate() call a system is updated after every system of
\* an earlier group and after the systems registered before it in its own group,
\* and no system is updated twice.
C23_UpdateOrder ==
    pc = "idle" =>
        LET log == autoUpdate(Cur).updLog
        IN  \A i, j \in DOMAIN log :
                i < j =>
                    /\ log[i] # log[j]
                    /\ GroupOf(log[i]) <= GroupOf(log[j])
                    /\ GroupOf(log[i]) = GroupOf(log[j]) => RegisteredAt(log[i]) < RegisteredAt(log[j])

C23_Witness ==
    /\ pc = "idle"
    /\ ~mIsWorldPaused
    /\ updateCalls = 4
    /\ autoUpdate(Cur).updLog = <<1, 2, 3, 5>>

\* every onRemove(e) the operation that led to st has made ran while e was still
\* in the membership set of the system
OnRemoveSeesMember(st) ==
    \A i \in DOMAIN st.cbLog : st.cbLog[i].kind = "onRemove" => st.cbLog[i].member

\* C24: when deactivate or the kill drain takes an entity out of a system through
\* onEntityDestroyed, onRemove runs while the entity is still a member, as it
\* does when a pattern change takes it out.
C24_OnRemoveBeforeErase ==
    pc = "idle" =>
        \A e \in Live :
            /\ \A c \in CompIds : OnRemoveSeesMember(Entity_remove(Cur, e, c))
            /\ ~Loops(Cur, e) =>
                    /\ OnRemoveSeesMember(World_deactivate(Cur, e))
                    /\ mToKill = {} => OnRemoveSeesMember(killEntities(World_kill(Cur, e)))

\* the results of the operations that can put the entity e into a system
Joining(e) ==
    {Entity_add(Cur, e, c, v) : c \in CompIds, v \in Values}
        \cup {Entity_addTag(Cur, e, t) : t \in TagIds}
        \cup {Entity_remove(Cur, e, c) : c \in CompIds}
        \cup {Entity_removeTag(Cur, e, t) : t \in TagIds}
        \cup (IF Loops(Cur, e) THEN {} ELSE {World_activate(Cur, e)})

\* C25: a system registered with UniqueEntity never has two members; an operation
\* that would give it a second member fails its assertion and leaves the
\* membership as it was.
C25_UniqueHasOneMember ==
    \A s \in SysIds :
        "UniqueEntity" \in mAttributes[s] =>
            /\ Cardinality(mEntities[s]) <= 1
            /\ pc = "idle" =>
                    \A e \in Live : \A st \in Joining(e) :
                        /\ st.pc # "aborted" => Cardinality(st.mEntities[s]) <= 1
                        /\ (/\ mEntities[s] \ {e} # {}
                            /\ isActive(st, e)
                            /\ isMatch(st, s, e)
                            /\ e \notin mEntities[s]) => st.pc = "aborted"

C25_Witness ==
    /\ pc = "aborted"
    /\ Cardinality(mEntities[3]) = 1
    /\ mEntities[1] = {}
    /\ \E e \in Live \ mEntities[3] : isActive(Cur, e)

\* what a removal may not touch when there is nothing to remove
Untouched(st) ==
    /\ st.mPatterns = mPatterns
    /\ st.mTagPatterns = mTagPatterns
    /\ st.mComponentArrays = mComponentArrays
    /\ st.mEntities = mEntities
    /\ st.cbLog = <<>>

\* C26: Entity::remove<T>() of a component or tag the entity does not hold changes
\* neither the patterns, nor the storage, nor any membership set, and no monitor
\* callback runs.
C26_RemoveOfAbsentIsNoOp ==
    pc = "idle" =>
        \A e \in Live :
            /\ \A c \in CompIds \ mPatterns[e] : Untouched(Entity_remove(Cur, e, c))
            /\ \A t \in TagIds \ mTagPatterns[e] : Untouched(Entity_removeTag(Cur, e, t))

\* C27: Entity::set<T>(v) on an entity that holds no T fails its assertion: no slot
\* is created, the pattern stays as it is, and the call does not go through.
C27_SetOfAbsentFails ==
    pc = "idle" =>
        \A e \in Live : \A c \in CompIds : \A v \in Values :
            ~hasData(mComponentArrays[c], e) =>
                LET st == Entity_set(Cur, e, c, v)
                IN  /\ st.pc = "aborted"
                    /\ st.mComponentArrays = mComponentArrays
                    /\ st.mPatterns = mPatterns

C27_Witness ==
    /\ pc = "aborted"
    /\ \E e \in Live : \E c \in CompIds :
            /\ ~hasData(mComponentArrays[c], e)
            /\ hasData(mComponentArrays[c], 1)

\* C28: pause() on a paused world and unpause() on a world that is not paused fail
\* an assertion instead of being accepted.
C28_RepeatedPauseFails ==
    pc = "idle" =>
        /\ mIsWorldPaused => onPaused(Cur).pc = "aborted"
        /\ ~mIsWorldPaused => onUnpaused(Cur).pc = "aborted"

\* the positions of the bits that are 1 in the bitset b
Bits(b) ==
    UNION {{(i - 1) * BITS_PER_BLOCK + k : k \in b.mBlocks[i]} : i \in DOMAIN b.mBlocks}

\* C29: for two bitsets of one size, a.contains(b) returns true exactly when every
\* bit that is 1 in b is 1 in a.
C29_ContainsIsSuperset ==
    operands.result # "none" =>
        (operands.result = "true" <=> Bits(operands.other) \subseteq Bits(operands.this))

\* the ids the calls of every thread have returned, as (thread, call) -> id
ReturnedBy == {<<t, i>> : t \in Threads, i \in 1 .. (maxEntities - 1)}
Returns == {r \in ReturnedBy : r[2] <= Len(creators[r[1]].returned)}

\* C30: createEntity calls of several threads exclude one another: at most one
\* thread is inside the function, no id is returned twice, and when no call is
\* running the entity count is the number of calls that returned an id.
C30_CreateEntityIsExclusive ==
    /\ Cardinality({t \in Threads : creators[t].at # "ready"}) <= 1
    /\ \A r, q \in Returns :
           r # q => creators[r[1]].returned[r[2]] # creators[q[1]].returned[q[2]]
    /\ (\A t \in Threads : creators[t].at = "ready") =>
           mEntityCount = Cardinality(Returns)

C30_Witness ==
    /\ creators[1].returned # <<>>
    /\ creators[2].at = "pop"
    /\ mEntityCount = 1

\* the array of type c in st differs from the current one at most in the value of e
OnlyValueOf(st, c, e) ==
    LET a == mComponentArrays[c]
        b == st.mComponentArrays[c]
    IN  /\ b.mSize = a.mSize
        /\ b.mEntityToIndex = a.mEntityToIndex
        /\ b.mIndexToEntity = a.mIndexToEntity
        /\ \A i \in 0 .. (a.mSize - 1) :
               i # a.mEntityToIndex[e] => b.mComponentTable[i] = a.mComponentTable[i]
        /\ \A d \in CompIds \ {c} : st.mComponentArrays[d] = mComponentArrays[d]

\* no pattern, no membership set changed and no monitor callback ran
Quiet(st) ==
    /\ st.mPatterns = mPatterns
    /\ st.mTagPatterns = mTagPatterns
    /\ st.mEntities = mEntities
    /\ st.cbLog = <<>>

\* C31: add<T>(v) on an entity that holds T overwrites the value in place: the
\* size and the index maps of T's array, the patterns and the membership sets stay
\* as they are and no monitor callback runs.
C31_AddOverwritesInPlace ==
    pc = "idle" =>
        \A e \in Live : \A c \in mPatterns[e] \cap CompIds : \A v \in Values :
            LET st == Entity_add(Cur, e, c, v)
            IN  /\ OnlyValueOf(st, c, e)
                /\ getData(st.mComponentArrays[c], e) = v
                /\ Quiet(st)

C31_Witness ==
    /\ pc = "idle"
    /\ \E e \in Live : \E f \in Live \ {e} :
            /\ Position \in mPatterns[e] \cap mPatterns[f]
            /\ getData(mComponentArrays[Position], e) = MaxVal
            /\ getData(mComponentArrays[Position], f) = 1
            /\ mComponentArrays[Position].mEntityToIndex[e] = 0
            /\ e \in mEntities[5]

\* C32: set<T>(v) on an entity that holds T changes the stored T value of that
\* entity and nothing else: no pattern, no membership set, no value of another
\* entity, and no monitor callback runs.
C32_SetChangesOneValue ==
    pc = "idle" =>
        \A e \in Live : \A c \in CompIds : \A v \in Values :
            hasData(mComponentArrays[c], e) =>
                LET st == Entity_set(Cur, e, c, v)
                IN  /\ st.pc = "idle"
                    /\ OnlyValueOf(st, c, e)
                    /\ getData(st.mComponentArrays[c], e) = v
                    /\ Quiet(st)

C32_Witness ==
    /\ pc = "idle"
    /\ \E e \in Live : \E f \in Live \ {e} :
            /\ hasData(mComponentArrays[Velocity], e)
            /\ hasData(mComponentArrays[Velocity], f)
            /\ mComponentArrays[Velocity].mEntityToIndex[e] = 1
            /\ getData(mComponentArrays[Velocity], e) = MaxVal
            /\ getData(mComponentArrays[Velocity], f) = 1
            /\ e \in mEntities[1]

\* the onRemove calls of system s for the entity d that the operation made
Evictions(st, s, d) ==
    {i \in DOMAIN st.cbLog :
        st.cbLog[i].kind = "onRemove" /\ st.cbLog[i].s = s /\ st.cbLog[i].e = d}

\* the operation that led to st made e a member of s, and each entity of below
\* that was a member of s is one no more, after exactly one onRemove
EvictedOnJoin(st, s, e, below) ==
    (e \notin mEntities[s] /\ e \in st.mEntities[s]) =>
        \A d \in below \cap mEntities[s] :
            /\ d \notin st.mEntities[s]
            /\ Cardinality(Evictions(st, s, d)) = 1

\* C33: when an entity becomes a member of an ExcludeChildren system, every
\* descendant of it that is a member of the system is evicted, with exactly one
\* onRemove each (no entity carries OverrideAttributeIgnoreChildren).
C33_DescendantsEvicted ==
    pc = "idle" =>
        \A s \in SysIds : IsExcludeChildren(s) =>
            \A e \in Live : \A st \in Joining(e) :
                EvictedOnJoin(st, s, e, Below(Cur, e))

\* C33, as the code has it: the children of the new member that are members are
\* evicted, with exactly one onRemove each; below a child that is not a member
\* nothing is looked at.
C33_ChildrenEvicted ==
    pc = "idle" =>
        \A s \in SysIds : IsExcludeChildren(s) =>
            \A e \in Live : \A st \in Joining(e) :
                EvictedOnJoin(st, s, e, parentToChildren[e])

C33_Witness ==
    /\ pc = "idle"
    /\ \E e \in Live : \E d \in parentToChildren[e] :
            /\ e \notin mEntities[5]
            /\ d \in mEntities[5]
            /\ e \in Entity_add(Cur, e, Position, DefaultValue).mEntities[5]

\* the step on which killEntities returns
KillEntitiesReturns == pc = "drain" /\ pc' = "idle"

\* isKilledThisFrame in the state after the step
isKilledThisFrameNext(e) == e \in mToKill' \/ e \in mKilledThisFrame'

\* C34: isKilledThisFrame() is true for e once kill(e) has put it in the queue and
\* stays true on every step, those of the drain that destroy e or other entities
\* included, until killEntities returns; when it has returned it is false.
C34_KilledUntilDrained ==
    [][/\ \A e \in Ids :
              (isKilledThisFrame(Cur, e) /\ ~KillEntitiesReturns) => isKilledThisFrameNext(e)
       /\ KillEntitiesReturns => \A e \in Ids : ~isKilledThisFrameNext(e)
       /\ \A e \in Live : (pc = "idle" /\ ~Loops(Cur, e)) =>
              \A d \in KillSet(Cur, e) : isKilledThisFrame(World_kill(Cur, e), d)]_vars

C34_Witness ==
    /\ pc = "drain"
    /\ \E e \in mKilledThisFrame \ (Live \cup tmpToKill) :
            /\ isKilledThisFrame(Cur, e)
            /\ toVisit # {}

\* the entity id has no component, no tag, no stored value, no child and is in no
\* system
IsBlank(st, id) ==
    /\ st.mPatterns[id] = {}
    /\ st.mTagPatterns[id] = {}
    /\ \A c \in CompIds : ~hasData(st.mComponentArrays[c], id)
    /\ st.parentToChildren[id] = {}
    /\ \A s \in SysIds : id \notin st.mEntities[s]

QueueIsSound(st) ==
    /\ \A i, j \in DOMAIN st.mAvailableIDs :
           i # j => st.mAvailableIDs[i] # st.mAvailableIDs[j]
    /\ st.mEntityCount + Len(st.mAvailableIDs) = maxEntities - 1
    /\ ~IsFull(st) => st.mAvailableIDs # <<>>

\* C36: the free queue is sound in every state the host can bring about: between
\* the operations, and after kill(e) and killEntities() for any entity e it holds,
\* alive or destroyed earlier.
C36_FreeQueueIsSound ==
    /\ QueueIsSound(Cur)
    /\ (pc = "idle" /\ mToKill = {}) =>
           \A e \in Ids :
               ((e \in Live \/ WasDestroyed(Cur, e)) /\ ~Loops(Cur, e)) =>
                   QueueIsSound(killEntities(World_kill(Cur, e)))

\* C37: after deactivate(e), e and every entity below it are inactive and in no
\* system; after activate(e), e and every entity below it are active, also when e
\* was active before the call.
C37_ActivationReachesDescendants ==
    pc = "idle" =>
        \A e \in Live : ~Loops(Cur, e) =>
            \A x \in {e} \cup Below(Cur, e) :
                /\ ~isActive(World_deactivate(Cur, e), x)
                /\ \A s \in SysIds : x \notin World_deactivate(Cur, e).mEntities[s]
                /\ isActive(World_activate(Cur, e), x)

C37_Witness ==
    /\ pc = "idle"
    /\ \E e \in Live : \E c \in parentToChildren[e] : \E g \in parentToChildren[c] :
            /\ isActive(Cur, e)
            /\ e \in mEntities[5]
            /\ ~isActive(Cur, c)
            /\ isActive(Cur, g)
            /\ g \in mEntities[5]

\* deactivate(e) and then activate(e)
OffAndOn(st, e) == World_activate(World_deactivate(st, e), e)

\* the patterns and the stored values are those of the current state
SameData(st) ==
    /\ st.mPatterns = mPatterns
    /\ st.mTagPatterns = mTagPatterns
    /\ st.mComponentArrays = mComponentArrays

\* C38: deactivate(e) followed by activate(e) changes no pattern and no stored
\* component, and leaves the active flags of e and of the entities below it and
\* every membership set as they were before the deactivate.
C38_OffAndOnRestores ==
    pc = "idle" =>
        \A e \in Live : ~Loops(Cur, e) =>
            /\ SameData(OffAndOn(Cur, e))
            /\ OffAndOn(Cur, e).mActiveEntities = mActiveEntities
            /\ OffAndOn(Cur, e).mEntities = mEntities

\* C39: a created entity is active exactly when an active one was asked for and
\* its parent is the root or is active; a child asked to be active under an
\* inactive parent starts inactive, and in no system.
C39_CreatedActiveUnderActive ==
    (pc = "idle" /\ ~IsFull(Cur)) =>
        \A a \in BOOLEAN :
            /\ isActive(World_entity(Cur, a), Created(Cur)) <=> a
            /\ \A p \in Live :
                   LET st == Entity_createChild(Cur, p, a)
                   IN  /\ isActive(st, Created(Cur)) <=> (a /\ isActive(Cur, p))
                       /\ ~isActive(Cur, p) =>
                              \A s \in SysIds : Created(Cur) \notin st.mEntities[s]

C39_Witness ==
    /\ pc = "idle"
    /\ \E p \in Live : \E c \in parentToChildren[p] : \E d \in parentToChildren[p] :
            /\ ~isActive(Cur, p)
            /\ Position \in mPatterns[p]
            /\ c # d
            /\ ~isActive(Cur, c)
            /\ ~isActive(Cur, d)

\* the bit of the descriptor d in the TraitUsers record users
UserBit(users, d) ==
    IF d.isTag THEN d.id \in users.tagPattern ELSE d.id \in users.componentPattern

\* C40: for a trait that has a TraitUsers record, the bit of a component or tag is
\* set in it exactly when the descriptor entity of that component or tag holds the
\* trait.
C40_TraitUsersAreCurrent ==
    \A t \in TraitIds :
        mTraitUsers[t].present =>
            \A d \in Descriptors : UserBit(mTraitUsers[t], d) <=> t \in mDescPatterns[d]
====
